---- MODULE Spec2Model ----
(***************************************************************************)
(* node-pg-migrate: the migration runner (runner), the Migration record    *)
(* and the MigrationBuilder, over an abstract PostgreSQL executor.         *)
(*                                                                         *)
(* The database is the committed state (history rows, schema objects, the  *)
(* history table's existence and primary key, the advisory lock) plus one  *)
(* session per runner invocation (transaction status, uncommitted view).   *)
(* A runner invocation is a sequence of steps, one per awaited call of     *)
(* the default export of the runner.                                       *)
(***************************************************************************)
EXTENDS Integers, Sequences, FiniteSets, TLC

VARIABLES
    tableState,   \* history table: "absent", "nopk" (no primary key), "pk"
    history,      \* committed history rows: names ORDER BY run_on, id
    schema,       \* committed schema objects
    lockHolder,   \* session holding the advisory lock, 0 when free
    files,        \* names of the migration files in options.dir
    runs,         \* number of runner invocations started so far
    pc,           \* per runner: position in the default export
    opt,          \* per runner: the RunnerOption of the invocation
    txn,          \* per session: "none", "open", "aborted"
    view,         \* per session: uncommitted [history, schema] of its transaction
    migrations,   \* per runner: loaded Migration records (names, in load order)
    recDown,      \* per runner: the `down` field of each Migration record
    runNames,     \* per runner: result of getRunMigrations
    toRun,        \* per runner: result of getMigrationsToRun
    idx,          \* per runner: index in toRun of the migration being applied
    steps,        \* per runner: sqlSteps of the migration being applied
    sidx,         \* per runner: index in steps of the next statement
    err,          \* per runner: the error the invocation raises (NoErr if none)
    result,       \* per runner: the returned list, <<>> until it returns
    seen,         \* per runner: what ensureMigrationsTable's SELECTs returned
    sent,         \* per runner: statements that reached the executor, in order
    pre,          \* per runner: committed database when the invocation started
    last,         \* summary of the most recently finished invocation
    closes,       \* per runner: db.close() calls of its current invocation
    pgm,          \* per runner: the MigrationBuilder of the migration being applied
    bidx,         \* per runner: index of the next call of the action body
    log,          \* per runner: warnings _apply logged for the migration being applied
    resolved,     \* per runner: the promise _apply awaits for the action body is resolved
    ncalls,       \* a Migration record used on its own: the calls made on it so far
    fileShorthands, \* loadMigrations: actions.shorthands of each file, in load order
    shorthands,   \* loadMigrations: the accumulated `shorthands`
    recShorthands, \* loadMigrations: typeShorthands of the records built so far
    client_active, \* lib/db.js: the module's flag
    client,       \* lib/db.js: the pg client, as far as the module drives it
    qcalls,       \* lib/db.js: the position of each query call
    atype,        \* applyType: the argument `type`
    typeShorthands, \* applyType: the merged shorthand mapping
    types,        \* applyType: the local `types`
    ext,          \* applyType: the type of the local `ext`
    outcome       \* applyType: how the call ended, if it has

\* the state of the parts that are used apart from a runner invocation: a
\* Migration record, the shorthands of loadMigrations, the legacy connection
\* module, applyType
recVars == <<ncalls>>

loadVars == <<fileShorthands, shorthands, recShorthands>>

connVars == <<client_active, client, qcalls>>

typeVars == <<atype, typeShorthands, types, ext, outcome>>

libVars == <<recVars, loadVars, connVars, typeVars>>

\* the state of a runner invocation and of the database
runnerVars == <<tableState, history, schema, lockHolder, files, runs, pc, opt, txn, view,
                migrations, recDown, runNames, toRun, idx, steps, sidx, err, result,
                seen, sent, pre, last, closes, pgm, bidx, log, resolved>>

vars == <<runnerVars, libVars>>

\* the type names that shorthand mappings have as keys; NoType: no entry
TypeNames == {"a", "b", "id", "serial"}

NoType == "none"

\* a shorthand mapping over TypeNames with no entry
NoShorthands == [k \in TypeNames |-> NoType]

\* the keys and the column definitions of the shorthands that files export
ShorthandKeys == {"k1", "k2"}

ColumnDefs == {"int", "text"}

\* `{}` as a ColumnDefinitions object
EmptyShorthands == [k \in ShorthandKeys |-> NoType]

\* the parts used apart from a runner invocation, not in use
RecInit == ncalls = 0

LoadInit == fileShorthands = <<>> /\ shorthands = EmptyShorthands /\ recShorthands = <<>>

\* the number of query calls made on the legacy connection module
MaxQueries ==
    3

\* lib/db.js after init: a fresh client, client_active false
ConnInit ==
    /\ client_active = FALSE
    /\ client = [connects |-> 0, connected |-> FALSE, queries |-> 0, ended |-> FALSE]
    /\ qcalls = [i \in 1..MaxQueries |-> "none"]

\* applyType not called
TypeInit ==
    /\ atype = NoType
    /\ typeShorthands = NoShorthands
    /\ types = <<>>
    /\ ext = NoType
    /\ outcome = "idle"

LibInit == RecInit /\ LoadInit /\ ConnInit /\ TypeInit

(***************************************************************************)
(* Bounds                                                                  *)
(***************************************************************************)
\* runner invocations per behaviour
MaxRuns == 2

\* options.count ranges over undefined and 0..MaxCount
MaxCount == 2

\* calls made on one Migration record when it is used on its own
MaxCalls == 2

Runners == {1, 2}

\* options.count === undefined
NoCount == -1

(***************************************************************************)
(* The migration files of the directory.  Names sort lexicographically in  *)
(* this order (loadMigrationFiles sorts); the timestamp is the numeric     *)
(* prefix before SEPARATOR.                                                *)
(***************************************************************************)
AllNames == <<"1_a", "2_b", "3_c">>
Names == {AllNames[i] : i \in 1..Len(AllNames)}

\* every file name a directory may hold, in the order Array.prototype.sort
\* gives them (by UTF-16 code units: "10_d" sorts before "1_a")
FileNames == <<"10_d", "1_a", "2_b", "3_c", "9_e">>

\* the position of a name in the sorted directory listing
Rank(n) == CHOOSE i \in 1..Len(FileNames) : FileNames[i] = n

\* Number(name.split(SEPARATOR)[0]) || 0
Timestamp(n) ==
    CASE n = "10_d" -> 10
      [] n = "1_a" -> 1
      [] n = "2_b" -> 2
      [] n = "3_c" -> 3
      [] n = "9_e" -> 9
      [] n = "4_f" -> 4
      [] n = "5_g" -> 5
      [] n = "6_h" -> 6
      [] n = "7_i" -> 7
      [] n = "11_j" -> 11
      [] n = "12_k" -> 12
      [] n = "13_l" -> 13
      [] n = "14_m" -> 14

Call(op, a) == [op |-> op, a |-> a]

\* exported `up` of each file: the calls its body makes on pgm, in order
UpBody(n) ==
    CASE n = "1_a" -> <<Call("createTable", "t1"), Call("addConstraint", "t1.k"),
                        Call("sql", "t1")>>
      [] n = "2_b" -> <<Call("noTransaction", ""), Call("dropConstraint", "t1.k")>>
      [] n = "3_c" -> <<Call("createTable", "t2"), Call("addConstraint", "t2.k")>>
      [] n = "4_f" -> <<Call("createTable", "t1")>>
      [] n = "7_i" -> <<Call("createTable", "t2"), Call("db.select", "t2"),
                        Call("addConstraint", "t2.k")>>
      [] n = "11_j" -> <<Call("createTable", "t2"), Call("resolve", ""),
                         Call("noTransaction", "")>>
      [] n = "12_k" -> <<Call("createTable", "t1")>>
      [] n = "13_l" -> <<Call("noTransaction", ""), Call("createTable", "t1"),
                         Call("sql", "t2")>>
      [] n = "14_m" -> <<Call("createTable", "t1"), Call("sql", "t2")>>
      [] OTHER -> <<>>

\* exported `down` of each file (read only when the file exports one)
DownBody(n) ==
    CASE n = "2_b" -> <<Call("addConstraint", "t1.k")>>
      [] n = "6_h" -> <<Call("db.query", "t1"), Call("dropTable", "t1")>>
      [] OTHER -> <<>>

\* the `up` and `down` a Migration record is constructed with: a function
\* (named by its identity), "undefined", or "false" (the direction is
\* disabled).  4_f disables down, 5_g disables up and exports no down, 6_h
\* exports a down only; 7_i uses pgm.db in its up body, 6_h in its down body.
UpField(n) ==
    CASE n = "5_g" -> "false"
      [] n = "6_h" -> "undefined"
      [] OTHER -> "up"

DownField(n) ==
    CASE n \in {"2_b", "6_h"} -> "down"
      [] n = "4_f" -> "false"
      [] OTHER -> "undefined"

\* action.length: 11_j and 12_k export (pgm, done) => ..., which signals its
\* completion by calling done (the call "resolve" of the body; 12_k never
\* makes it); the other actions take pgm only and return a promise
Arity(n) == IF n \in {"11_j", "12_k"} THEN 2 ELSE 1

\* the migrations applied one at a time in SpecAct
ActNames == {"1_a", "2_b", "3_c", "4_f", "5_g", "6_h", "7_i", "11_j", "12_k", "13_l",
             "14_m"}

\* the Migration records of an invocation, before any is applied
RecDown0 == [n \in Names \cup ActNames |-> DownField(n)]

Tables == {"t1", "t2"}
TableOf(o) == IF o = "t1.k" THEN "t1" ELSE IF o = "t2.k" THEN "t2" ELSE o

(***************************************************************************)
(* Statements and the executor                                             *)
(***************************************************************************)
Stmt(k, a) == [k |-> k, a |-> a]

BEGIN == Stmt("BEGIN", "")
COMMIT == Stmt("COMMIT", "")
ROLLBACK == Stmt("ROLLBACK", "")

DbState(h, s) == [history |-> h, schema |-> s]

\* the view of a session that has no open transaction
NoView == DbState(<<>>, {})

RemoveName(h, n) == SelectSeq(h, LAMBDA x : x # n)

\* does statement st succeed on database state d?
StmtOk(d, st) ==
    CASE st.k = "CREATE" -> /\ st.a \notin d.schema
                            /\ TableOf(st.a) = st.a \/ TableOf(st.a) \in d.schema
      [] st.k = "DROP"   -> st.a \in d.schema
      \* raw SQL of pgm.sql: a statement on table st.a
      [] st.k = "SQL"    -> st.a \in d.schema
      [] OTHER           -> TRUE

\* effect of a succeeding statement on database state d; dropping a table
\* drops its constraints with it
StmtEffect(d, st) ==
    CASE st.k = "CREATE" -> DbState(d.history, d.schema \cup {st.a})
      [] st.k = "DROP"   -> DbState(d.history,
                                    IF st.a \in Tables
                                    THEN {o \in d.schema : TableOf(o) # st.a}
                                    ELSE d.schema \ {st.a})
      [] st.k = "INSERT" -> DbState(Append(d.history, st.a), d.schema)
      [] st.k = "DELETE" -> DbState(RemoveName(d.history, st.a), d.schema)
      [] OTHER           -> d

\* db.query(st) on session r: the session's transaction status, its view and
\* the committed database afterwards, and whether the statement succeeded
Query(r, st) ==
    LET committed == DbState(history, schema)
        cur == IF txn[r] = "open" THEN view[r] ELSE committed
    IN  CASE st.k = "BEGIN" ->
               IF txn[r] = "none"
               THEN [ok |-> TRUE, txn |-> "open", view |-> committed, db |-> committed]
               ELSE [ok |-> txn[r] = "open", txn |-> txn[r], view |-> view[r],
                     db |-> committed]
          [] st.k = "COMMIT" ->
               [ok |-> TRUE, txn |-> "none", view |-> NoView,
                db |-> IF txn[r] = "open" THEN view[r] ELSE committed]
          [] st.k = "ROLLBACK" ->
               [ok |-> TRUE, txn |-> "none", view |-> NoView, db |-> committed]
          [] OTHER ->
               IF txn[r] = "aborted" \/ ~StmtOk(cur, st)
               THEN [ok |-> FALSE,
                     txn |-> IF txn[r] = "none" THEN "none" ELSE "aborted",
                     view |-> NoView, db |-> committed]
               ELSE IF txn[r] = "open"
                    THEN [ok |-> TRUE, txn |-> "open", view |-> StmtEffect(cur, st),
                          db |-> committed]
                    ELSE [ok |-> TRUE, txn |-> "none", view |-> NoView,
                          db |-> StmtEffect(cur, st)]

(***************************************************************************)
(* Operations and the MigrationBuilder                                     *)
(***************************************************************************)
\* the statements an operation returns for a call
Forward(c) ==
    CASE c.op = "createTable"    -> <<Stmt("CREATE", c.a)>>
      [] c.op = "dropTable"      -> <<Stmt("DROP", c.a)>>
      [] c.op = "addConstraint"  -> <<Stmt("CREATE", c.a)>>
      [] c.op = "dropConstraint" -> <<Stmt("DROP", c.a)>>
      [] c.op = "sql"            -> <<Stmt("SQL", c.a)>>

\* typeof operation.reverse === 'function'
HasReverse(op) == op \in {"createTable", "addConstraint"}

\* the statements operation.reverse returns for a call
ReverseOf(c) ==
    CASE c.op = "createTable"   -> <<Stmt("DROP", c.a)>>
      [] c.op = "addConstraint" -> <<Stmt("DROP", c.a)>>

\* operation.name: the name of the function the operation factory returns
OperationName(op) ==
    CASE op = "createTable"    -> "_create"
      [] op = "dropTable"      -> "_drop"
      [] op = "addConstraint"  -> "_add"
      [] op = "dropConstraint" -> "_drop"
      [] op = "sql"            -> ""

\* an Error: its message, the names the message carries (a, b, and a list)
ErrList(msg, a, b, names) == [msg |-> msg, a |-> a, b |-> b, names |-> names]
Err(msg, a, b) == ErrList(msg, a, b, <<>>)
NoErr == Err("", "", "")

\* a fresh MigrationBuilder
NewBuilder == [steps |-> <<>>, reverseMode |-> FALSE, useTransaction |-> TRUE,
               error |-> NoErr]

\* one call of the action body on builder b: pgm.noTransaction() or a wrapped
\* operation
Wrap(b, c) ==
    IF c.op = "noTransaction"
    THEN [b EXCEPT !.useTransaction = FALSE]
    ELSE IF b.reverseMode /\ ~HasReverse(c.op)
         THEN [b EXCEPT !.error = Err("Impossible to automatically infer down migration",
                                      OperationName(c.op), c.op)]
         ELSE [b EXCEPT !.steps = @ \o (IF b.reverseMode THEN ReverseOf(c)
                                                         ELSE Forward(c))]

\* the action body run on builder b: its calls in order, up to the first
\* that throws
RECURSIVE RunBody(_, _, _)
RunBody(b, calls, i) ==
    IF i > Len(calls) \/ b.error # NoErr
    THEN b
    ELSE RunBody(Wrap(b, calls[i]), calls, i + 1)

ReverseSeq(s) == [i \in 1..Len(s) |-> s[Len(s) + 1 - i]]

\* variant of GetSqlSteps: the steps are never reversed
GetSqlStepsForward(b) == b.steps

\* MigrationBuilder.getSqlSteps
GetSqlSteps(b) == IF b.reverseMode THEN ReverseSeq(b.steps) ELSE b.steps

\* variant of EnableReverseMode: the flag is left as it was
EnableReverseModeNoop(b) == b

\* MigrationBuilder.enableReverseMode
EnableReverseMode(b) == [b EXCEPT !.reverseMode = TRUE]

\* the calls of pgm.db, which wrapDB guards
DbOps == {"db.query", "db.select"}

\* variant of WrapDBThrows: pgm.db is never refused
WrapDBNeverThrows(b) == FALSE

\* wrapDB: whether a call of pgm.db.query / pgm.db.select throws
WrapDBThrows(b) == b.reverseMode

(***************************************************************************)
(* The Migration record                                                    *)
(***************************************************************************)
\* Migration._getAction, first statement: the `down` field afterwards
InferDown(direction, down, up) ==
    IF direction = "down" /\ down = "undefined" THEN up ELSE down

\* variant of GetAction: the action is returned whatever it is
GetActionUnchecked(direction, down, up) ==
    [ok |-> TRUE, error |-> NoErr,
     action |-> IF direction = "down" THEN InferDown(direction, down, up) ELSE up]

\* Migration._getAction: the action, or the error it throws
GetAction(direction, down, up) ==
    LET action == IF direction = "down" THEN InferDown(direction, down, up) ELSE up
    IN  IF action = "false"
        THEN [ok |-> FALSE, action |-> action,
              error |-> Err("User has disabled migration", direction, "")]
        ELSE IF action = "undefined"
             THEN [ok |-> FALSE, action |-> action,
                   error |-> Err("Unknown value for direction", direction, "")]
             ELSE [ok |-> TRUE, action |-> action, error |-> NoErr]

\* variant of GetMarkAsRun: every action is recorded with an INSERT
GetMarkAsRunInsert(action, down, up, name) == Stmt("INSERT", name)

\* Migration._getMarkAsRun: the switch on the action
GetMarkAsRun(action, down, up, name) ==
    IF action = down THEN Stmt("DELETE", name)
    ELSE IF action = up THEN Stmt("INSERT", name)
    ELSE Stmt("THROW", "Unknown direction")

\* the body an action function runs
BodyOf(action, name) == IF action = "down" THEN DownBody(name) ELSE UpBody(name)

\* variant of SqlSteps: the migration's own transaction is never committed
SqlStepsNoCommit(b, mark, singleTransaction) ==
    LET s == Append(GetSqlSteps(b), mark)
    IN  IF ~singleTransaction /\ b.useTransaction
        THEN <<BEGIN>> \o s
        ELSE IF singleTransaction /\ ~b.useTransaction
             THEN <<COMMIT>> \o s \o <<BEGIN>>
             ELSE s

\* variant of SqlSteps: the history statement follows the migration's COMMIT
SqlStepsMarkAfterCommit(b, mark, singleTransaction) ==
    IF ~singleTransaction /\ b.useTransaction
    THEN <<BEGIN>> \o GetSqlSteps(b) \o <<COMMIT, mark>>
    ELSE IF singleTransaction /\ ~b.useTransaction
         THEN <<COMMIT>> \o Append(GetSqlSteps(b), mark) \o <<BEGIN>>
         ELSE Append(GetSqlSteps(b), mark)

\* variant of SqlSteps: a global transaction is never broken
SqlStepsNoBreak(b, mark, singleTransaction) ==
    IF ~singleTransaction /\ b.useTransaction
    THEN <<BEGIN>> \o Append(GetSqlSteps(b), mark) \o <<COMMIT>>
    ELSE Append(GetSqlSteps(b), mark)

\* variant of SqlSteps: the migration's own transaction is never begun
SqlStepsNoBegin(b, mark, singleTransaction) ==
    LET s == Append(GetSqlSteps(b), mark)
    IN  IF ~singleTransaction /\ b.useTransaction
        THEN s \o <<COMMIT>>
        ELSE IF singleTransaction /\ ~b.useTransaction
             THEN <<COMMIT>> \o s \o <<BEGIN>>
             ELSE s

\* variant of Warnings: _apply logs no warning
WarningsNone(b, singleTransaction) == <<>>

\* Migration._apply, after the action body: the warnings it logs
Warnings(b, singleTransaction) ==
    IF ~singleTransaction /\ b.useTransaction
    THEN <<>>
    ELSE IF singleTransaction /\ ~b.useTransaction
         THEN <<"Need to break single transaction!">>
         ELSE IF ~singleTransaction \/ ~b.useTransaction
              THEN <<"This migration is not wrapped in a transaction!">>
              ELSE <<>>

\* Migration._apply, after the action body: the statement sequence
SqlSteps(b, mark, singleTransaction) ==
    LET s == Append(GetSqlSteps(b), mark)
    IN  IF ~singleTransaction /\ b.useTransaction
        THEN <<BEGIN>> \o s \o <<COMMIT>>
        ELSE IF singleTransaction /\ ~b.useTransaction
             THEN <<COMMIT>> \o s \o <<BEGIN>>
             ELSE s

\* Migration.apply up to the statement loop: the builder after the body and
\* the statement sequence, or the error
Apply(name, direction, down0, singleTransaction) ==
    LET up == UpField(name)
        down == InferDown(direction, down0, up)
        ga == GetAction(direction, down0, up)
        b0 == IF down = up THEN [NewBuilder EXCEPT !.reverseMode = TRUE]
                           ELSE NewBuilder
        b == RunBody(b0, BodyOf(ga.action, name), 1)
        mark == GetMarkAsRun(ga.action, down, up, name)
    IN  IF ~ga.ok THEN [ok |-> FALSE, error |-> ga.error, steps |-> <<>>, down |-> down,
                            log |-> <<>>, resolved |-> FALSE]
        ELSE IF b.error # NoErr
             THEN [ok |-> FALSE, error |-> b.error, steps |-> <<>>, down |-> down,
                   log |-> <<>>, resolved |-> FALSE]
             ELSE IF mark.k = "THROW"
                  THEN [ok |-> FALSE, error |-> Err(mark.a, "", ""), steps |-> <<>>,
                        down |-> down, log |-> <<>>, resolved |-> TRUE]
                  ELSE [ok |-> TRUE, error |-> NoErr,
                        steps |-> SqlSteps(b, mark, singleTransaction), down |-> down,
                        log |-> Warnings(b, singleTransaction), resolved |-> TRUE]

(***************************************************************************)
(* The runner: pure parts                                                  *)
(***************************************************************************)
\* loadMigrationFiles: the files of the directory, sorted
LoadMigrationFiles(fs) == SelectSeq(FileNames, LAMBDA n : n \in fs)

\* the directories that exist
Dirs == {"migrations"}

\* new RegExp(`^(${ignorePattern})$`): whether the pattern compiles
PatternOk(p) == p # "("

\* the patterns have no metacharacters: one matches the file of that name
\* ("" stands for an ignorePattern that is not given)
Ignored(p, n) == p = n

\* loadMigrations: readdir of options.dir, the ignore pattern, one Migration
\* per file; any error is rethrown as "Can't get migration files"
LoadMigrations(o, fs) ==
    IF o.dir \notin Dirs \/ ~PatternOk(o.ignorePattern)
    THEN [ok |-> FALSE, migs |-> <<>>,
          error |-> Err("Can't get migration files", o.dir, o.ignorePattern)]
    ELSE [ok |-> TRUE,
          migs |-> SelectSeq(LoadMigrationFiles(fs),
                             LAMBDA n : ~Ignored(o.ignorePattern, n)),
          error |-> NoErr]

Min(a, b) == IF a < b THEN a ELSE b
Abs(x) == IF x < 0 THEN -x ELSE x
InSeq(x, s) == \E i \in 1..Len(s) : s[i] = x

\* variant of CheckOrder: the last differing position is reported
CheckOrderLast(names, migs) ==
    LET len == Min(Len(names), Len(migs))
        bad == {i \in 1..len : names[i] # migs[i]}
    IN  IF bad = {} THEN 0 ELSE CHOOSE i \in bad : \A j \in bad : i >= j

\* variant of CheckOrder: only the first position is compared
CheckOrderFirstOnly(names, migs) ==
    IF Len(names) >= 1 /\ Len(migs) >= 1 /\ names[1] # migs[1] THEN 1 ELSE 0

\* checkOrder: the first position where recorded and discovered names differ,
\* 0 when there is none below the shorter length
CheckOrder(names, migs) ==
    LET len == Min(Len(names), Len(migs))
        bad == {i \in 1..len : names[i] # migs[i]}
    IN  IF bad = {} THEN 0 ELSE CHOOSE i \in bad : \A j \in bad : i <= j

\* Array.prototype.slice(-n)
SliceLast(s, n) ==
    IF n = 0 \/ n >= Len(s) THEN s ELSE SubSeq(s, Len(s) - n + 1, Len(s))

\* variant of SliceFirst: the elements are taken from the end
SliceFirstFromEnd(s, n) == SliceLast(s, n)

\* Array.prototype.slice(0, n)
SliceFirst(s, n) == IF n >= Len(s) THEN s ELSE SubSeq(s, 1, n)

\* getMigrationsToRun, direction down: the names selected, most recent first
DownToRun(o, names, migs) ==
    LET downMigrations == SelectSeq(names, LAMBDA n : o.file = "" \/ o.file = n)
    IN  ReverseSeq(
          IF o.timestamp
          THEN SelectSeq(downMigrations,
                         LAMBDA n : InSeq(n, migs) /\ o.count # NoCount
                                    /\ Timestamp(n) >= o.count)
          ELSE SliceLast(downMigrations, Abs(IF o.count = NoCount THEN 1 ELSE o.count)))

\* variant of UpToRun: recorded migrations are not filtered out
UpToRunAll(o, names, migs) ==
    LET upMigrations == SelectSeq(migs, LAMBDA n : o.file = "" \/ o.file = n)
    IN  IF o.timestamp
        THEN SelectSeq(upMigrations, LAMBDA n : o.count # NoCount
                                                /\ Timestamp(n) <= o.count)
        ELSE IF o.count = NoCount THEN upMigrations
             ELSE SliceFirst(upMigrations, Abs(o.count))

\* getMigrationsToRun, direction up
UpToRun(o, names, migs) ==
    LET upMigrations == SelectSeq(migs, LAMBDA n : ~InSeq(n, names)
                                                   /\ (o.file = "" \/ o.file = n))
    IN  IF o.timestamp
        THEN SelectSeq(upMigrations, LAMBDA n : o.count # NoCount
                                                /\ Timestamp(n) <= o.count)
        ELSE IF o.count = NoCount THEN upMigrations
             ELSE SliceFirst(upMigrations, Abs(o.count))

\* getMigrationsToRun: the list, or the deleted-definitions error
GetMigrationsToRun(o, names, migs) ==
    IF o.direction = "down"
    THEN LET sel == DownToRun(o, names, migs)
             deleted == SelectSeq(sel, LAMBDA n : ~InSeq(n, migs))
         IN  IF Len(deleted) > 0
             THEN [ok |-> FALSE, toRun |-> <<>>,
                   error |-> ErrList("Definitions of migrations have been deleted",
                                     "", "", deleted)]
             ELSE [ok |-> TRUE, toRun |-> sel, error |-> NoErr]
    ELSE [ok |-> TRUE, toRun |-> UpToRun(o, names, migs), error |-> NoErr]

(***************************************************************************)
(* The runner: one action per awaited step of the default export           *)
(***************************************************************************)
\* the configurations an invocation is started with: every combination of
\* direction, singleTransaction, dryRun and fake, with a selection (count,
\* file, timestamp) and checkOrder on or off; noLock with the default selection
Selections ==
    [count : {NoCount} \cup (0..MaxCount), file : {""}, timestamp : {FALSE}]
    \cup [count : {NoCount}, file : {"2_b", "3_c"}, timestamp : {FALSE}]
    \cup [count : 1..MaxCount, file : {""}, timestamp : {TRUE}]

Config(d, s, c, l, t, y, f) ==
    [direction |-> d, count |-> s.count, file |-> s.file, timestamp |-> s.timestamp,
     checkOrder |-> c, noLock |-> l, singleTransaction |-> t, dryRun |-> y, fake |-> f,
     dir |-> "migrations", ignorePattern |-> "", createSchema |-> FALSE,
     checkOrderGiven |-> TRUE]

Configs ==
    {Config(d, s, c, FALSE, t, y, f) :
        d \in {"up", "down"}, s \in Selections, c \in BOOLEAN,
        t \in BOOLEAN, y \in BOOLEAN, f \in BOOLEAN}
    \cup {Config(d, [count |-> NoCount, file |-> "", timestamp |-> FALSE], TRUE, TRUE,
                 t, y, f) :
        d \in {"up", "down"}, t \in BOOLEAN, y \in BOOLEAN, f \in BOOLEAN}

NoOpt == [direction |-> "up", count |-> NoCount, file |-> "", timestamp |-> FALSE,
          checkOrder |-> FALSE, noLock |-> FALSE, singleTransaction |-> FALSE,
          dryRun |-> FALSE, fake |-> FALSE,
          dir |-> "migrations", ignorePattern |-> "", createSchema |-> FALSE,
          checkOrderGiven |-> TRUE]

Committed == [tableState |-> tableState, history |-> history, schema |-> schema]

NoPre == [tableState |-> "absent", history |-> <<>>, schema |-> {}]

NoLast == [valid |-> FALSE, opt |-> NoOpt, files |-> {}, err |-> NoErr,
           result |-> <<>>, toRun |-> <<>>, pre |-> NoPre]

Sent(m, st, ok) == [mig |-> m, st |-> st, ok |-> ok]

\* the path of the migration file named n in the migrations directory
PathOf(n) == [dir |-> "migrations", base |-> n, ext |-> ".js"]

\* variant of Returned: the list is returned last first
ReturnedReversed(ms) ==
    [i \in 1..Len(ms) |->
        [path |-> PathOf(ms[Len(ms) + 1 - i]), name |-> ms[Len(ms) + 1 - i],
         timestamp |-> Timestamp(ms[Len(ms) + 1 - i])]]

\* the list the runner returns: toRun.map(m => ({path, name, timestamp}))
Returned(ms) ==
    [i \in 1..Len(ms) |->
        [path |-> PathOf(ms[i]), name |-> ms[i], timestamp |-> Timestamp(ms[i])]]

\* the variables of the database and the session that db.query changes
Exec(r, m, st) ==
    LET q == Query(r, st)
    IN  /\ history' = q.db.history
        /\ schema' = q.db.schema
        /\ txn' = [txn EXCEPT ![r] = q.txn]
        /\ view' = [view EXCEPT ![r] = q.view]
        /\ sent' = [sent EXCEPT ![r] = Append(@, Sent(m, st, q.ok))]

NoExec == UNCHANGED <<history, schema, txn, view, sent>>

\* the invocations that may follow a remembered one: the same configuration
\* again, or the same in the other direction
FollowUps(o) == {o, [o EXCEPT !.direction = IF @ = "up" THEN "down" ELSE "up"]}

\* an invocation starts with options o: the connection is created
Start(r, o) ==
    /\ pc[r] = "idle"
    /\ runs < MaxRuns
    /\ last.valid => o \in FollowUps(last.opt)
    /\ runs' = runs + 1
    /\ pc' = [pc EXCEPT ![r] = IF o.createSchema THEN "schemas" ELSE "ensureTable"]
    /\ opt' = [opt EXCEPT ![r] = o]
    /\ pre' = [pre EXCEPT ![r] = Committed]
    /\ closes' = [closes EXCEPT ![r] = 0]
    /\ UNCHANGED <<tableState, history, schema, lockHolder, files, txn, view,
                   migrations, recDown, runNames, toRun, idx, steps, sidx, err, result,
                   seen, sent, last, pgm, bidx, log, resolved, libVars>>

\* ensureMigrationsTable: SELECT table_name FROM information_schema.tables
EnsureSelectTable(r) ==
    /\ pc[r] = "ensureTable"
    /\ seen' = [seen EXCEPT ![r] = IF tableState = "absent" THEN "absent" ELSE "exists"]
    /\ pc' = [pc EXCEPT ![r] = IF tableState = "absent" THEN "ensureWrite"
                                                        ELSE "ensurePk"]
    /\ UNCHANGED <<tableState, history, schema, lockHolder, files, runs, opt, txn, view,
                   migrations, recDown, runNames, toRun, idx, steps, sidx, err, result,
                   sent, pre, last, closes, pgm, bidx, log, resolved, libVars>>

\* ensureMigrationsTable: SELECT constraint_name ... 'PRIMARY KEY'
EnsureSelectPk(r) ==
    /\ pc[r] = "ensurePk"
    /\ seen' = [seen EXCEPT ![r] = IF tableState = "pk" THEN "pk" ELSE "nopk"]
    /\ pc' = [pc EXCEPT ![r] = IF tableState = "pk"
                               THEN (IF opt[r].noLock THEN "load" ELSE "lock")
                               ELSE "ensureWrite"]
    /\ UNCHANGED <<tableState, history, schema, lockHolder, files, runs, opt, txn, view,
                   migrations, recDown, runNames, toRun, idx, steps, sidx, err, result,
                   sent, pre, last, closes, pgm, bidx, log, resolved, libVars>>

\* variant of EnsureStmt: the table is created whatever the SELECT returned
EnsureStmtCreate(sn) == Stmt("CREATE TABLE", "pgmigrations")

\* the statement ensureMigrationsTable sends after its SELECTs: CREATE TABLE
\* when no table was found, ALTER TABLE ... ADD PRIMARY KEY when the table was
\* found without one (sn is what the SELECTs returned)
EnsureStmt(sn) == IF sn = "absent" THEN Stmt("CREATE TABLE", "pgmigrations")
                                   ELSE Stmt("ADD PRIMARY KEY", "pgmigrations")

\* ensureMigrationsTable: CREATE TABLE, or ALTER TABLE ... ADD PRIMARY KEY
EnsureWrite(r) ==
    /\ pc[r] = "ensureWrite"
    /\ LET st == EnsureStmt(seen[r])
           ok == IF st.k = "CREATE TABLE" THEN tableState = "absent"
                                          ELSE tableState = "nopk"
       IN  /\ sent' = [sent EXCEPT ![r] = Append(@, Sent("", st, ok))]
           /\ tableState' = IF ok THEN "pk" ELSE tableState
           /\ err' = [err EXCEPT ![r] =
                        IF ok THEN NoErr
                        ELSE Err("Unable to ensure migrations table", st.k, "")]
           /\ pc' = [pc EXCEPT ![r] = IF ~ok THEN "close"
                                      ELSE IF opt[r].noLock THEN "load" ELSE "lock"]
    /\ UNCHANGED <<history, schema, lockHolder, files, runs, opt, txn, view,
                   migrations, recDown, runNames, toRun, idx, steps, sidx, result,
                   seen, pre, last, closes, pgm, bidx, log, resolved, libVars>>

\* variant of LockObtained: the result of pg_try_advisory_lock is not looked at
LockObtainedUnchecked(r) == TRUE

\* pg_try_advisory_lock on the session: whether the lock is obtained
LockObtained(r) == lockHolder \in {0, r}

\* lock: select pg_try_advisory_lock(PG_MIGRATE_LOCK_ID).  The trace notes
\* whether another session held the lock when it was requested.
Lock(r) ==
    /\ pc[r] = "lock"
    /\ sent' = [sent EXCEPT ![r] =
                 Append(@, Sent("", Stmt("LOCK", IF lockHolder \in {0, r} THEN "free"
                                                                         ELSE "held"),
                                LockObtained(r)))]
    /\ IF LockObtained(r)
       THEN /\ lockHolder' = r
            /\ pc' = [pc EXCEPT ![r] = "load"]
            /\ err' = err
       ELSE /\ lockHolder' = lockHolder
            /\ pc' = [pc EXCEPT ![r] = "close"]
            /\ err' = [err EXCEPT ![r] = Err("Another migration is already running",
                                             "", "")]
    /\ UNCHANGED <<tableState, history, schema, files, runs, opt, txn, view,
                   migrations, recDown, runNames, toRun, idx, steps, sidx, result,
                   seen, pre, last, closes, pgm, bidx, log, resolved, libVars>>

\* variant of OnApplyError: the error leaves the runner past its finally
OnApplyErrorNoFinally(o) == "idle"

\* variant of OnApplyError: the error is swallowed and the migration applied
\* again
OnApplyErrorRetry(o) == "apply"

\* variant of OnApplyError: the error leaves the runner without a ROLLBACK
OnApplyErrorNoRollback(o) == "close"

\* where the invocation goes when an error is raised while applying
OnApplyError(o) == IF o.singleTransaction /\ ~o.fake THEN "rollback" ELSE "close"

\* where the invocation goes after the last migration of toRun
OnApplied(o) == IF o.singleTransaction /\ ~o.fake THEN "commit" ELSE "close"

\* variant of OnPlanned: single-transaction mode sends no BEGIN
OnPlannedNoBegin(o) == IF o.fake THEN "mark" ELSE "apply"

\* variant of OnPlanned: the fake option is not looked at
OnPlannedFakeIgnored(o) == IF o.singleTransaction THEN "begin" ELSE "apply"

\* where the invocation goes to apply the first migration
OnPlanned(o) ==
    IF o.fake THEN "mark" ELSE IF o.singleTransaction THEN "begin" ELSE "apply"

\* if (options.checkOrder): an option that is not given reads as undefined,
\* which is falsy
CheckOrderOn(o) == o.checkOrderGiven /\ o.checkOrder

\* Promise.all([loadMigrations, getRunMigrations]), then checkOrder,
\* getMigrationsToRun and the test for an empty list
Load(r) ==
    /\ pc[r] = "load"
    /\ LET lm == LoadMigrations(opt[r], files)
           migs == lm.migs
           names == history
           bad == IF CheckOrderOn(opt[r]) THEN CheckOrder(names, migs) ELSE 0
           g == GetMigrationsToRun(opt[r], names, migs)
       IN  /\ migrations' = [migrations EXCEPT ![r] = migs]
           /\ runNames' = [runNames EXCEPT ![r] = names]
           /\ IF ~lm.ok
              THEN /\ err' = [err EXCEPT ![r] = lm.error]
                   /\ pc' = [pc EXCEPT ![r] = "close"]
                   /\ UNCHANGED <<toRun, idx>>
              ELSE IF bad > 0
              THEN /\ err' = [err EXCEPT ![r] =
                                Err("Not run migration is preceding already run migration",
                                    migs[bad], names[bad])]
                   /\ pc' = [pc EXCEPT ![r] = "close"]
                   /\ UNCHANGED <<toRun, idx>>
              ELSE IF ~g.ok
                   THEN /\ err' = [err EXCEPT ![r] = g.error]
                        /\ pc' = [pc EXCEPT ![r] = "close"]
                        /\ UNCHANGED <<toRun, idx>>
                   ELSE /\ err' = err
                        /\ toRun' = [toRun EXCEPT ![r] = g.toRun]
                        /\ idx' = [idx EXCEPT ![r] = 1]
                        /\ pc' = [pc EXCEPT ![r] = IF Len(g.toRun) = 0 THEN "close"
                                                   ELSE OnPlanned(opt[r])]
    /\ sent' = [sent EXCEPT ![r] = Append(@, Sent("", Stmt("SELECT", "name"), TRUE))]
    /\ UNCHANGED <<tableState, history, schema, lockHolder, files, runs, opt, txn, view,
                   recDown, steps, sidx, result, seen, pre, last, closes, pgm, bidx,
                   log, resolved, libVars>>

\* db.query('BEGIN') of single-transaction mode
Begin(r) ==
    /\ pc[r] = "begin"
    /\ Exec(r, "", BEGIN)
    /\ pc' = [pc EXCEPT ![r] = "apply"]
    /\ UNCHANGED <<tableState, lockHolder, files, runs, opt, migrations, recDown,
                   runNames, toRun, idx, steps, sidx, err, result, seen, pre, last, closes, pgm, bidx,
                   log, resolved, libVars>>

\* migration.apply(direction) up to the statement loop: the action body runs
\* and the statement sequence is built
ApplyBody(r) ==
    /\ pc[r] = "apply"
    /\ LET name == toRun[r][idx[r]]
           a == Apply(name, opt[r].direction, recDown[r][name],
                      opt[r].singleTransaction)
       IN  /\ recDown' = [recDown EXCEPT ![r][name] = a.down]
           /\ steps' = [steps EXCEPT ![r] = a.steps]
           /\ sidx' = [sidx EXCEPT ![r] = 1]
           /\ err' = [err EXCEPT ![r] = a.error]
           /\ pc' = [pc EXCEPT ![r] = IF a.ok THEN "exec" ELSE OnApplyError(opt[r])]
           /\ log' = [log EXCEPT ![r] = a.log]
           /\ resolved' = [resolved EXCEPT ![r] = a.resolved]
    /\ UNCHANGED <<tableState, history, schema, lockHolder, files, runs, opt, txn, view,
                   migrations, runNames, toRun, idx, result, seen, sent, pre, last,
                   closes, pgm, bidx, libVars>>

\* Migration.apply, first part: new MigrationBuilder, then _getAction
ApplyEnter(r) ==
    /\ pc[r] = "apply"
    /\ LET name == toRun[r][idx[r]]
           ga == GetAction(opt[r].direction, recDown[r][name], UpField(name))
       IN  /\ recDown' = [recDown EXCEPT ![r][name] =
                            InferDown(opt[r].direction, @, UpField(name))]
           /\ pgm' = [pgm EXCEPT ![r] = NewBuilder]
           /\ bidx' = [bidx EXCEPT ![r] = 1]
           /\ err' = [err EXCEPT ![r] = ga.error]
           /\ pc' = [pc EXCEPT ![r] = IF ga.ok THEN "mode" ELSE OnApplyError(opt[r])]
           /\ log' = [log EXCEPT ![r] = <<>>]
           /\ resolved' = [resolved EXCEPT ![r] = FALSE]
    /\ UNCHANGED <<tableState, history, schema, lockHolder, files, runs, opt, txn, view,
                   migrations, runNames, toRun, idx, steps, sidx, result, seen, sent,
                   pre, last, closes, libVars>>

\* Migration.apply: if (this.down === this.up) pgm.enableReverseMode()
ApplyMode(r) ==
    /\ pc[r] = "mode"
    /\ LET name == toRun[r][idx[r]]
       IN  pgm' = [pgm EXCEPT ![r] = IF recDown[r][name] = UpField(name)
                                     THEN EnableReverseMode(@) ELSE @]
    /\ pc' = [pc EXCEPT ![r] = "body"]
    /\ UNCHANGED <<tableState, history, schema, lockHolder, files, runs, opt, txn, view,
                   migrations, recDown, runNames, toRun, idx, steps, sidx, err, result,
                   seen, sent, pre, last, closes, bidx, log, resolved, libVars>>

\* the action _apply calls for the migration invocation r is applying
ActionOf(r) ==
    LET name == toRun[r][idx[r]]
    IN  IF opt[r].direction = "down" THEN recDown[r][name] ELSE UpField(name)

\* Migration._apply, the action body: its next call on pgm
BodyCall(r) ==
    /\ pc[r] = "body"
    /\ LET name == toRun[r][idx[r]]
           body == BodyOf(ActionOf(r), name)
       IN  /\ bidx[r] <= Len(body)
           /\ resolved' = [resolved EXCEPT ![r] = @ \/ body[bidx[r]].op = "resolve"]
           /\ LET c == body[bidx[r]]
              IN  IF c.op = "resolve"
                  THEN /\ NoExec
                       /\ bidx' = [bidx EXCEPT ![r] = @ + 1]
                       /\ UNCHANGED <<pgm, err, pc>>
                  ELSE IF c.op \in DbOps
                  THEN IF WrapDBThrows(pgm[r])
                       THEN /\ NoExec
                            /\ err' = [err EXCEPT ![r] =
                                  Err("Impossible to automatically infer down migration",
                                      "", c.op)]
                            /\ pc' = [pc EXCEPT ![r] = OnApplyError(opt[r])]
                            /\ UNCHANGED <<pgm, bidx>>
                       ELSE /\ Exec(r, name, Stmt(c.op, c.a))
                            /\ bidx' = [bidx EXCEPT ![r] = @ + 1]
                            /\ UNCHANGED <<pgm, err, pc>>
                  ELSE LET b == Wrap(pgm[r], c)
                       IN  /\ NoExec
                           /\ pgm' = [pgm EXCEPT ![r] = b]
                           /\ err' = [err EXCEPT ![r] = b.error]
                           /\ IF b.error # NoErr
                              THEN /\ pc' = [pc EXCEPT ![r] = OnApplyError(opt[r])]
                                   /\ bidx' = bidx
                              ELSE /\ pc' = pc
                                   /\ bidx' = [bidx EXCEPT ![r] = @ + 1]
    /\ UNCHANGED <<tableState, lockHolder, files, runs, opt, migrations, recDown,
                   runNames, toRun, idx, steps, sidx, result, seen, pre, last, closes,
                   log, libVars>>

\* Migration._apply, `await action(pgm)`: the promise a one-argument action
\* returns resolves when its body has run to the end
BodyResolve(r) ==
    /\ pc[r] = "body"
    /\ Arity(toRun[r][idx[r]]) = 1
    /\ bidx[r] > Len(BodyOf(ActionOf(r), toRun[r][idx[r]]))
    /\ ~resolved[r]
    /\ resolved' = [resolved EXCEPT ![r] = TRUE]
    /\ UNCHANGED <<tableState, history, schema, lockHolder, files, runs, pc, opt, txn,
                   view, migrations, recDown, runNames, toRun, idx, steps, sidx, err,
                   result, seen, sent, pre, last, closes, pgm, bidx, log, libVars>>

\* variant of Awaited: _apply goes on without waiting for the action
AwaitedAlways(res) == TRUE

\* Migration._apply: the await of the action's completion is over (res: the
\* awaited promise is resolved)
Awaited(res) == res

\* Migration._apply after the body: getSqlSteps, the history statement and
\* the transaction wrap.  The continuation of the await runs once the promise
\* is resolved and the synchronous run of the body is over.
BodyDone(r) ==
    /\ pc[r] = "body"
    /\ Awaited(resolved[r])
    /\ LET name == toRun[r][idx[r]]
           mark == GetMarkAsRun(ActionOf(r), recDown[r][name], UpField(name), name)
       IN  /\ bidx[r] > Len(BodyOf(ActionOf(r), name))
           /\ IF mark.k = "THROW"
              THEN /\ err' = [err EXCEPT ![r] = Err(mark.a, "", "")]
                   /\ pc' = [pc EXCEPT ![r] = OnApplyError(opt[r])]
                   /\ log' = log
                   /\ UNCHANGED <<steps, sidx>>
              ELSE /\ steps' = [steps EXCEPT ![r] =
                                  SqlSteps(pgm[r], mark, opt[r].singleTransaction)]
                   /\ log' = [log EXCEPT ![r] =
                                Warnings(pgm[r], opt[r].singleTransaction)]
                   /\ sidx' = [sidx EXCEPT ![r] = 1]
                   /\ pc' = [pc EXCEPT ![r] = "exec"]
                   /\ err' = err
    /\ UNCHANGED <<tableState, history, schema, lockHolder, files, runs, opt, txn, view,
                   migrations, recDown, runNames, toRun, idx, result, seen, sent,
                   pre, last, closes, pgm, bidx, resolved, libVars>>

\* after the last statement of a migration: the next migration, or the return
Advance(r, again) ==
    /\ idx' = [idx EXCEPT ![r] = @ + 1]
    /\ IF idx[r] < Len(toRun[r])
       THEN /\ pc' = [pc EXCEPT ![r] = again]
            /\ result' = result
       ELSE /\ pc' = [pc EXCEPT ![r] = OnApplied(opt[r])]
            /\ result' = [result EXCEPT ![r] =
                            IF OnApplied(opt[r]) = "close" THEN Returned(toRun[r])
                                                           ELSE @]

\* variant of MoreSteps: the chain of a migration ends after any statement
MoreStepsNone(s, i) == FALSE

\* sqlSteps.reduce: whether a statement follows the i-th in the chain
MoreSteps(s, i) == i < Len(s)

\* Migration._apply, the statement loop: options.dryRun || db.query(sql)
ExecStmt(r) ==
    /\ pc[r] = "exec"
    /\ LET name == toRun[r][idx[r]]
           st == steps[r][sidx[r]]
           q == Query(r, st)
       IN  IF opt[r].dryRun
           THEN /\ NoExec
                /\ sidx' = [sidx EXCEPT ![r] = Len(steps[r]) + 1]
                /\ err' = err
                /\ Advance(r, "apply")
           ELSE /\ Exec(r, name, st)
                /\ IF ~q.ok
                   THEN /\ err' = [err EXCEPT ![r] = Err("query failed", st.k, st.a)]
                        /\ pc' = [pc EXCEPT ![r] = OnApplyError(opt[r])]
                        /\ UNCHANGED <<sidx, idx, result>>
                   ELSE /\ err' = err
                        /\ sidx' = [sidx EXCEPT ![r] = @ + 1]
                        /\ IF MoreSteps(steps[r], sidx[r])
                           THEN UNCHANGED <<pc, idx, result>>
                           ELSE Advance(r, "apply")
    /\ UNCHANGED <<tableState, lockHolder, files, runs, opt, migrations, recDown,
                   runNames, toRun, steps, seen, pre, last, closes, pgm, bidx, log, resolved,
                   libVars>>

\* migration.markAsRun(direction) of fake mode
Mark(r) ==
    /\ pc[r] = "mark"
    /\ LET name == toRun[r][idx[r]]
           up == UpField(name)
           down == InferDown(opt[r].direction, recDown[r][name], up)
           ga == GetAction(opt[r].direction, recDown[r][name], up)
           mark == GetMarkAsRun(ga.action, down, up, name)
           q == Query(r, mark)
       IN  /\ recDown' = [recDown EXCEPT ![r][name] = down]
           /\ IF ~ga.ok \/ mark.k = "THROW"
              THEN /\ NoExec
                   /\ err' = [err EXCEPT ![r] = IF ~ga.ok THEN ga.error
                                                ELSE Err(mark.a, "", "")]
                   /\ pc' = [pc EXCEPT ![r] = OnApplyError(opt[r])]
                   /\ UNCHANGED <<idx, result>>
              ELSE /\ Exec(r, name, mark)
                   /\ IF ~q.ok
                      THEN /\ err' = [err EXCEPT ![r] = Err("query failed", mark.k, mark.a)]
                           /\ pc' = [pc EXCEPT ![r] = OnApplyError(opt[r])]
                           /\ UNCHANGED <<idx, result>>
                      ELSE /\ err' = err
                           /\ Advance(r, "mark")
    /\ UNCHANGED <<tableState, lockHolder, files, runs, opt, migrations, runNames,
                   toRun, steps, sidx, seen, pre, last, closes, pgm, bidx, log, resolved,
                   libVars>>

\* db.query('COMMIT') of single-transaction mode, and the return
Commit(r) ==
    /\ pc[r] = "commit"
    /\ Exec(r, "", COMMIT)
    /\ result' = [result EXCEPT ![r] = Returned(toRun[r])]
    /\ pc' = [pc EXCEPT ![r] = "close"]
    /\ UNCHANGED <<tableState, lockHolder, files, runs, opt, migrations, recDown,
                   runNames, toRun, idx, steps, sidx, err, seen, pre, last, closes, pgm, bidx,
                   log, resolved, libVars>>

\* the catch of single-transaction mode: db.query('ROLLBACK'), then rethrow
Rollback(r) ==
    /\ pc[r] = "rollback"
    /\ Exec(r, "", ROLLBACK)
    /\ pc' = [pc EXCEPT ![r] = "close"]
    /\ UNCHANGED <<tableState, lockHolder, files, runs, opt, migrations, recDown,
                   runNames, toRun, idx, steps, sidx, err, result, seen, pre, last, closes, pgm, bidx,
                   log, resolved, libVars>>

\* variant of Release: the lock outlives the session that took it
ReleaseNever(r, h) == h

\* client.end(): the session of r is over, and with it the session-level
\* advisory lock if r holds it (h is the holder)
Release(r, h) == IF h = r THEN 0 ELSE h

\* finally: db.close(); the session ends, which aborts its open transaction
\* and releases its advisory lock.  The invocation's Migration records and
\* locals are gone; `last` remembers its summary when keep is set.
Close(r, keep) ==
    /\ pc[r] = "close"
    /\ pc' = [pc EXCEPT ![r] = "idle"]
    /\ txn' = [txn EXCEPT ![r] = "none"]
    /\ view' = [view EXCEPT ![r] = NoView]
    /\ lockHolder' = Release(r, lockHolder)
    /\ last' = IF keep
               THEN [valid |-> TRUE, opt |-> opt[r], files |-> files, err |-> err[r],
                     result |-> result[r], toRun |-> toRun[r], pre |-> pre[r]]
               ELSE NoLast
    /\ opt' = [opt EXCEPT ![r] = NoOpt]
    /\ migrations' = [migrations EXCEPT ![r] = <<>>]
    /\ recDown' = [recDown EXCEPT ![r] = RecDown0]
    /\ runNames' = [runNames EXCEPT ![r] = <<>>]
    /\ toRun' = [toRun EXCEPT ![r] = <<>>]
    /\ idx' = [idx EXCEPT ![r] = 0]
    /\ steps' = [steps EXCEPT ![r] = <<>>]
    /\ sidx' = [sidx EXCEPT ![r] = 0]
    /\ err' = [err EXCEPT ![r] = NoErr]
    /\ result' = [result EXCEPT ![r] = <<>>]
    /\ seen' = [seen EXCEPT ![r] = ""]
    /\ sent' = [sent EXCEPT ![r] = <<>>]
    /\ pre' = [pre EXCEPT ![r] = NoPre]
    /\ closes' = [closes EXCEPT ![r] = @ + 1]
    /\ pgm' = [pgm EXCEPT ![r] = NewBuilder]
    /\ bidx' = [bidx EXCEPT ![r] = 0]
    /\ log' = [log EXCEPT ![r] = <<>>]
    /\ resolved' = [resolved EXCEPT ![r] = FALSE]
    /\ UNCHANGED <<tableState, history, schema, files, runs, libVars>>

\* between invocations the file of a recorded migration is deleted from the
\* directory (one file per behaviour)
RemoveFile(f) ==
    /\ \A r \in Runners : pc[r] = "idle"
    /\ runs < MaxRuns
    /\ files = Names
    /\ InSeq(f, history)
    /\ files' = files \ {f}
    /\ UNCHANGED <<tableState, history, schema, lockHolder, runs, pc, opt, txn, view,
                   migrations, recDown, runNames, toRun, idx, steps, sidx, err, result,
                   seen, sent, pre, last, closes, pgm, bidx, log, resolved, libVars>>

\* options.schema with createSchema: CREATE SCHEMA IF NOT EXISTS, then
\* SET search_path
CreateSchemas(r) ==
    /\ pc[r] = "schemas"
    /\ sent' = [sent EXCEPT ![r] =
                 @ \o <<Sent("", Stmt("CREATE SCHEMA", "public"), TRUE),
                        Sent("", Stmt("SET", "search_path"), TRUE)>>]
    /\ pc' = [pc EXCEPT ![r] = "ensureTable"]
    /\ UNCHANGED <<tableState, history, schema, lockHolder, files, runs, opt, txn, view,
                   migrations, recDown, runNames, toRun, idx, steps, sidx, err, result,
                   seen, pre, last, closes, pgm, bidx, log, resolved, libVars>>

\* the runner's own queries, which the executor may reject (a missing
\* privilege, a lost connection)
RejectPcs == {"schemas", "ensureTable", "ensurePk", "ensureWrite", "lock", "load",
              "begin", "commit", "rollback"}

\* the query awaited at pc[r] is rejected: the error leaves the runner, through
\* the catch of single-transaction mode when the COMMIT is rejected
Rejected(r) ==
    /\ pc[r] \in RejectPcs
    /\ sent' = [sent EXCEPT ![r] = Append(@, Sent("", Stmt("REJECTED", pc[r]), FALSE))]
    /\ err' = [err EXCEPT ![r] = Err("query rejected", pc[r], "")]
    /\ txn' = [txn EXCEPT ![r] = IF @ = "open" THEN "aborted" ELSE @]
    /\ pc' = [pc EXCEPT ![r] = IF pc[r] = "commit" THEN "rollback" ELSE "close"]
    /\ UNCHANGED <<tableState, history, schema, lockHolder, files, runs, opt, view,
                   migrations, recDown, runNames, toRun, idx, steps, sidx, result,
                   seen, pre, last, closes, pgm, bidx, log, resolved, libVars>>

(***************************************************************************)
(* Specifications                                                          *)
(***************************************************************************)
\* databases an invocation can find: a fresh one, and one where an earlier
\* version created the history table without a primary key and applied 1_a,
\* and which holds a table t2 of its own
InitDb ==
    \/ tableState = "absent" /\ history = <<>> /\ schema = {}
    \/ tableState = "nopk" /\ history = <<"1_a">> /\ schema = {"t1", "t1.k", "t2"}

InitRunner ==
    /\ InitDb
    /\ lockHolder = 0
    /\ files = Names
    /\ runs = 0
    /\ pc = [r \in Runners |-> "idle"]
    /\ opt = [r \in Runners |-> NoOpt]
    /\ txn = [r \in Runners |-> "none"]
    /\ view = [r \in Runners |-> NoView]
    /\ migrations = [r \in Runners |-> <<>>]
    /\ recDown = [r \in Runners |-> RecDown0]
    /\ runNames = [r \in Runners |-> <<>>]
    /\ toRun = [r \in Runners |-> <<>>]
    /\ idx = [r \in Runners |-> 0]
    /\ steps = [r \in Runners |-> <<>>]
    /\ sidx = [r \in Runners |-> 0]
    /\ err = [r \in Runners |-> NoErr]
    /\ result = [r \in Runners |-> <<>>]
    /\ seen = [r \in Runners |-> ""]
    /\ sent = [r \in Runners |-> <<>>]
    /\ pre = [r \in Runners |-> NoPre]
    /\ last = NoLast
    /\ closes = [r \in Runners |-> 0]
    /\ pgm = [r \in Runners |-> NewBuilder]
    /\ bidx = [r \in Runners |-> 0]
    /\ log = [r \in Runners |-> <<>>]
    /\ resolved = [r \in Runners |-> FALSE]

Init == InitRunner /\ LibInit

Step(r) ==
    \/ EnsureSelectTable(r)
    \/ EnsureSelectPk(r)
    \/ EnsureWrite(r)
    \/ Lock(r)
    \/ Load(r)
    \/ Begin(r)
    \/ ApplyBody(r)
    \/ ExecStmt(r)
    \/ Mark(r)
    \/ Commit(r)
    \/ Rollback(r)

\* one runner, invoked again and again
Next ==
    \/ \E o \in Configs : Start(1, o)
    \/ Step(1)
    \/ \E keep \in BOOLEAN : (keep => runs < MaxRuns) /\ Close(1, keep)
    \/ \E f \in Names : RemoveFile(f)

Spec == Init /\ [][Next]_vars

\* two runners invoked against the same database, locking enabled
ConcConfigs ==
    {Config(d, [count |-> NoCount, file |-> "", timestamp |-> FALSE], TRUE, FALSE, t,
            FALSE, FALSE) :
        d \in {"up", "down"}, t \in BOOLEAN}
    \cup {Config("up", [count |-> 1, file |-> "", timestamp |-> FALSE], TRUE, FALSE,
                 FALSE, FALSE, TRUE)}

StartConc(r, o) ==
    /\ pc[r] = "idle"
    /\ runs < MaxRuns
    /\ runs' = runs + 1
    /\ pc' = [pc EXCEPT ![r] = "ensureTable"]
    /\ opt' = [opt EXCEPT ![r] = o]
    /\ pre' = [pre EXCEPT ![r] = Committed]
    /\ closes' = [closes EXCEPT ![r] = 0]
    /\ UNCHANGED <<tableState, history, schema, lockHolder, files, txn, view,
                   migrations, recDown, runNames, toRun, idx, steps, sidx, err, result,
                   seen, sent, last, pgm, bidx, log, resolved, libVars>>

NextConc ==
    \/ \E r \in Runners : \E o \in ConcConfigs : StartConc(r, o)
    \/ \E r \in Runners : Step(r)
    \/ \E r \in Runners : Close(r, FALSE)

SpecConc == Init /\ [][NextConc]_vars

\* getMigrationsToRun on its own: an invocation that holds the lock and is
\* about to load, for any recorded history, directory content and selection
SubSeqs(s) ==
    {SelectSeq(s, LAMBDA n : n \in keep) : keep \in SUBSET {s[i] : i \in 1..Len(s)}}

\* recorded histories: in file order, or with a later file recorded first
SelHistories ==
    SubSeqs(FileNames) \cup {<<"2_b", "1_a">>, <<"3_c", "1_a", "2_b">>,
                            <<"9_e", "10_d", "3_c">>}

SelFiles == {fs \in SUBSET {FileNames[i] : i \in 1..Len(FileNames)} : Cardinality(fs) >= 3}

SelConfigs ==
    {Config(d, [count |-> c, file |-> f, timestamp |-> FALSE], FALSE, FALSE, FALSE,
            FALSE, FALSE) :
        d \in {"up", "down"}, c \in {NoCount} \cup (0..MaxCount), f \in {"", "2_b", "9_e"}}
    \cup {Config(d, [count |-> c, file |-> f, timestamp |-> TRUE], FALSE, FALSE, FALSE,
                 FALSE, FALSE) :
        d \in {"up", "down"}, c \in {0, 2, 3, 10, 11}, f \in {"", "2_b", "9_e"}}

InitSel ==
    /\ tableState = "pk" /\ schema = {}
    /\ history \in SelHistories
    /\ files \in SelFiles
    /\ lockHolder = 1
    /\ runs = 1
    /\ pc = [r \in Runners |-> IF r = 1 THEN "load" ELSE "idle"]
    /\ \E o \in SelConfigs : opt = [r \in Runners |-> IF r = 1 THEN o ELSE NoOpt]
    /\ txn = [r \in Runners |-> "none"]
    /\ view = [r \in Runners |-> NoView]
    /\ migrations = [r \in Runners |-> <<>>]
    /\ recDown = [r \in Runners |-> RecDown0]
    /\ runNames = [r \in Runners |-> <<>>]
    /\ toRun = [r \in Runners |-> <<>>]
    /\ idx = [r \in Runners |-> 0]
    /\ steps = [r \in Runners |-> <<>>]
    /\ sidx = [r \in Runners |-> 0]
    /\ err = [r \in Runners |-> NoErr]
    /\ result = [r \in Runners |-> <<>>]
    /\ seen = [r \in Runners |-> "pk"]
    /\ sent = [r \in Runners |-> <<>>]
    /\ pre = [r \in Runners |-> IF r = 1 THEN Committed ELSE NoPre]
    /\ last = NoLast
    /\ closes = [r \in Runners |-> 0]
    /\ pgm = [r \in Runners |-> NewBuilder]
    /\ bidx = [r \in Runners |-> 0]
    /\ log = [r \in Runners |-> <<>>]
    /\ resolved = [r \in Runners |-> FALSE]
    /\ LibInit

NextSel == Load(1)

SpecSel == InitSel /\ [][NextSel]_vars

\* one runner with its setup steps and an executor that may reject a query.
\* The configurations cover both directions with and without
\* singleTransaction and fake, a fake run that records 2_b alone (order
\* check), a missing directory, a malformed ignore pattern, a pattern that
\* hides the recorded 1_a (selection), schema creation, noLock, dryRun, and
\* a configuration that does not set checkOrder.
DefaultSel == [count |-> NoCount, file |-> "", timestamp |-> FALSE]

ExitConfigs ==
    LET up == Config("up", DefaultSel, TRUE, FALSE, FALSE, FALSE, FALSE)
        down == Config("down", DefaultSel, TRUE, FALSE, FALSE, FALSE, FALSE)
    IN  {Config(d, DefaultSel, TRUE, FALSE, t, FALSE, f) :
            d \in {"up", "down"}, t \in BOOLEAN, f \in BOOLEAN}
        \cup {[up EXCEPT !.file = "2_b", !.checkOrder = FALSE, !.fake = TRUE],
              [up EXCEPT !.dir = "missing"],
              [up EXCEPT !.ignorePattern = "("],
              [down EXCEPT !.ignorePattern = "1_a", !.checkOrder = FALSE],
              [up EXCEPT !.createSchema = TRUE],
              [up EXCEPT !.noLock = TRUE],
              [up EXCEPT !.dryRun = TRUE],
              [up EXCEPT !.checkOrderGiven = FALSE]}

\* one migration applied on its own, with Migration.apply followed call by
\* call: a batch of one after it was selected, in either direction, on an
\* empty schema or one that holds every object, with the history to match
ActSchemas == {{}, {"t1", "t1.k", "t2", "t2.k"}}

ActConfigs(n) ==
    {Config(d, [count |-> NoCount, file |-> n, timestamp |-> FALSE], FALSE, FALSE,
            t, y, f) :
        d \in {"up", "down"}, t \in BOOLEAN, y \in BOOLEAN, f \in BOOLEAN}

InitAct ==
    \E n \in ActNames : \E o \in ActConfigs(n) :
        /\ tableState = "pk"
        /\ schema \in ActSchemas
        /\ history = IF o.direction = "down" THEN <<n>> ELSE <<>>
        /\ files = ActNames
        /\ lockHolder = 1
        /\ runs = 1
        /\ pc = [r \in Runners |-> IF r = 1 THEN OnPlanned(o) ELSE "idle"]
        /\ opt = [r \in Runners |-> IF r = 1 THEN o ELSE NoOpt]
        /\ txn = [r \in Runners |-> "none"]
        /\ view = [r \in Runners |-> NoView]
        /\ migrations = [r \in Runners |-> <<>>]
        /\ recDown = [r \in Runners |-> RecDown0]
        /\ runNames = [r \in Runners |-> <<>>]
        /\ toRun = [r \in Runners |-> IF r = 1 THEN <<n>> ELSE <<>>]
        /\ idx = [r \in Runners |-> IF r = 1 THEN 1 ELSE 0]
        /\ steps = [r \in Runners |-> <<>>]
        /\ sidx = [r \in Runners |-> 0]
        /\ err = [r \in Runners |-> NoErr]
        /\ result = [r \in Runners |-> <<>>]
        /\ seen = [r \in Runners |-> IF r = 1 THEN "pk" ELSE ""]
        /\ sent = [r \in Runners |->
                     IF r = 1 THEN <<Sent("", Stmt("LOCK", "free"), TRUE),
                                     Sent("", Stmt("SELECT", "name"), TRUE)>>
                     ELSE <<>>]
        /\ pre = [r \in Runners |->
                    IF r = 1 THEN [tableState |-> "pk", history |-> history,
                                   schema |-> schema]
                    ELSE NoPre]
        /\ last = NoLast
        /\ closes = [r \in Runners |-> 0]
        /\ pgm = [r \in Runners |-> NewBuilder]
        /\ bidx = [r \in Runners |-> 0]
        /\ log = [r \in Runners |-> <<>>]
        /\ resolved = [r \in Runners |-> FALSE]
        /\ LibInit

NextAct ==
    \/ Begin(1)
    \/ ApplyEnter(1)
    \/ ApplyMode(1)
    \/ BodyCall(1)
    \/ BodyResolve(1)
    \/ BodyDone(1)
    \/ ExecStmt(1)
    \/ Mark(1)
    \/ Commit(1)
    \/ Rollback(1)
    \/ Close(1, FALSE)

SpecAct == InitAct /\ [][NextAct]_vars

\* a Migration record used on its own: one record, constructed from a file,
\* on which a caller calls apply(direction) and markAsRun(direction) one after
\* the other; the record keeps its fields between the calls
RecNames == {"2_b", "3_c", "14_m"}

\* a call on the record: its direction is the call's argument, `fake` stands
\* for markAsRun
RecordCall(r) ==
    /\ pc[r] \in {"record", "close"}
    /\ ncalls < MaxCalls
    /\ ncalls' = ncalls + 1
    /\ \E d \in {"up", "down"}, m \in BOOLEAN :
          /\ opt' = [opt EXCEPT ![r].direction = d, ![r].fake = m]
          /\ pc' = [pc EXCEPT ![r] = IF m THEN "mark" ELSE "apply"]
    /\ idx' = [idx EXCEPT ![r] = 1]
    /\ steps' = [steps EXCEPT ![r] = <<>>]
    /\ sidx' = [sidx EXCEPT ![r] = 0]
    /\ err' = [err EXCEPT ![r] = NoErr]
    /\ result' = [result EXCEPT ![r] = <<>>]
    /\ UNCHANGED <<tableState, history, schema, lockHolder, files, runs, txn, view,
                   migrations, recDown, runNames, toRun, seen, sent, pre, last, closes,
                   pgm, bidx, log, resolved, loadVars, connVars, typeVars>>

InitRec ==
    \E n \in RecNames : \E y \in BOOLEAN :
        /\ tableState = "pk"
        /\ schema \in ActSchemas
        /\ history \in {<<>>, <<n>>}
        /\ files = ActNames
        /\ lockHolder = 0
        /\ runs = 0
        /\ pc = [r \in Runners |-> IF r = 1 THEN "record" ELSE "idle"]
        /\ opt = [r \in Runners |->
                    IF r = 1
                    THEN Config("up", [count |-> NoCount, file |-> n, timestamp |-> FALSE],
                                FALSE, TRUE, FALSE, y, FALSE)
                    ELSE NoOpt]
        /\ txn = [r \in Runners |-> "none"]
        /\ view = [r \in Runners |-> NoView]
        /\ migrations = [r \in Runners |-> <<>>]
        /\ recDown = [r \in Runners |-> RecDown0]
        /\ runNames = [r \in Runners |-> <<>>]
        /\ toRun = [r \in Runners |-> IF r = 1 THEN <<n>> ELSE <<>>]
        /\ idx = [r \in Runners |-> IF r = 1 THEN 1 ELSE 0]
        /\ steps = [r \in Runners |-> <<>>]
        /\ sidx = [r \in Runners |-> 0]
        /\ err = [r \in Runners |-> NoErr]
        /\ result = [r \in Runners |-> <<>>]
        /\ seen = [r \in Runners |-> ""]
        /\ sent = [r \in Runners |-> <<>>]
        /\ pre = [r \in Runners |-> NoPre]
        /\ last = NoLast
        /\ closes = [r \in Runners |-> 0]
        /\ pgm = [r \in Runners |-> NewBuilder]
        /\ bidx = [r \in Runners |-> 0]
        /\ log = [r \in Runners |-> <<>>]
        /\ resolved = [r \in Runners |-> FALSE]
        /\ LibInit

NextRec ==
    \/ RecordCall(1)
    \/ ApplyEnter(1)
    \/ ApplyMode(1)
    \/ BodyCall(1)
    \/ BodyResolve(1)
    \/ BodyDone(1)
    \/ ExecStmt(1)
    \/ Mark(1)

SpecRec == InitRec /\ [][NextRec]_vars

\* what the runner does next: every await settles, with a result or an error
Run(r) == Step(r) \/ CreateSchemas(r) \/ Rejected(r) \/ Close(r, FALSE)

NextExit ==
    \/ \E o \in ExitConfigs : Start(1, o)
    \/ Step(1)
    \/ CreateSchemas(1)
    \/ Rejected(1)
    \/ Close(1, FALSE)

\* the event loop runs the continuation of every settled await
SpecExit == Init /\ [][NextExit]_vars /\ WF_vars(Run(1))

(***************************************************************************)
(* Properties                                                              *)
(***************************************************************************)
LockError == Err("Another migration is already running", "", "")

\* r requested the lock while another session held it
RequestedHeldLock(r) ==
    \E i \in 1..Len(sent[r]) : sent[r][i].st = Stmt("LOCK", "held")

\* r executed a statement of a migration or a statement on the history rows
TouchedMigrations(r) ==
    \E i \in 1..Len(sent[r]) :
        sent[r][i].mig # "" \/ sent[r][i].st.k \in {"INSERT", "DELETE"}

ApplyPcs == {"begin", "apply", "exec", "mark", "commit", "rollback"}

NoDuplicates(h) == \A i, j \in 1..Len(h) : h[i] = h[j] => i = j

\* C2: of two invocations against the same database, one that fails without
\* having applied anything while the other is in progress fails with the
\* lock-contention error; the two never apply migrations at the same time;
\* and the history never holds a migration twice.
C2_SecondInvocationFailsOnLock ==
    /\ \A r, s \in Runners :
          (r # s /\ pc[s] # "idle" /\ pc[r] = "close" /\ err[r] # NoErr
             /\ runNames[r] = <<>> /\ migrations[r] = <<>>)
          => err[r] = LockError
    /\ \A r, s \in Runners : (pc[r] \in ApplyPcs /\ pc[s] \in ApplyPcs) => r = s
    /\ NoDuplicates(history)

\* ---- the single runner: predicates on invocation 1 about to close ----
Final == pc[1] = "close"

\* the invocation failed while applying its batch
BatchFailed == Final /\ toRun[1] # <<>> /\ err[1] # NoErr

\* an invocation that executes migrations: neither a dry run nor fake
Applies(o) == ~o.dryRun /\ ~o.fake

Recorded(n) == InSeq(n, history)

\* no migration of the batch left the global transaction: none sent a COMMIT
GlobalTxnKept ==
    \A i \in 1..Len(sent[1]) : sent[1][i].mig # "" => sent[1][i].st # COMMIT

\* C3, as claimed: in single-transaction mode, whenever a migration of the
\* batch fails, schema and history rows are exactly as before the run.
C3_AsClaimed ==
    (BatchFailed /\ opt[1].singleTransaction)
        => (history = pre[1].history /\ schema = pre[1].schema)

\* C3: in single-transaction mode without fake, when a migration of the batch
\* fails and no migration of the batch has left the global transaction (none
\* ran with its transaction disabled by pgm.noTransaction), the run leaves
\* schema and history rows exactly as they were before the run.
C3_SingleTransactionAllOrNothing ==
    (BatchFailed /\ opt[1].singleTransaction /\ ~opt[1].fake /\ GlobalTxnKept)
        => (history = pre[1].history /\ schema = pre[1].schema)

\* a later migration of a single-transaction batch failed after an earlier one
\* had executed all its statements, history statement included
C3_Witness ==
    /\ BatchFailed /\ opt[1].singleTransaction /\ Applies(opt[1]) /\ GlobalTxnKept
    /\ idx[1] >= 2
    /\ \E i \in 1..Len(sent[1]) :
          sent[1][i].ok /\ sent[1][i].st.k \in {"INSERT", "DELETE"}

\* the history after the first k migrations of toRun were applied to history h
RECURSIVE HistoryAfter(_, _, _, _)
HistoryAfter(h, run, k, direction) ==
    IF k = 0 THEN h
    ELSE LET g == HistoryAfter(h, run, k - 1, direction)
         IN  IF direction = "up" THEN Append(g, run[k]) ELSE RemoveName(g, run[k])

\* C4: without single-transaction mode, in a run that executes migrations (not
\* a dry run, not fake), when the k-th migration of the batch fails, the
\* migrations 1..k-1 stay done: each of their statements succeeded and the
\* history shows exactly them as applied (up: recorded, down: removed); the
\* k-th and later ones are not recorded as done; the error is raised and no
\* list is returned.
C4_PartialProgress ==
    (BatchFailed /\ ~opt[1].singleTransaction /\ Applies(opt[1])) =>
        LET k == idx[1]
            done == {toRun[1][j] : j \in 1..(k - 1)}
            rest == {toRun[1][j] : j \in k..Len(toRun[1])}
        IN  /\ history = HistoryAfter(pre[1].history, toRun[1], k - 1, opt[1].direction)
            /\ \A n \in done : Recorded(n) = (opt[1].direction = "up")
            /\ \A n \in rest : Recorded(n) = (opt[1].direction = "down")
            /\ \A i \in 1..Len(sent[1]) : sent[1][i].mig \in done => sent[1][i].ok
            /\ result[1] = <<>>

\* the second migration of a batch failed after the first changed schema and
\* history
C4_Witness ==
    /\ BatchFailed /\ ~opt[1].singleTransaction /\ Applies(opt[1])
    /\ idx[1] >= 2
    /\ history # pre[1].history /\ schema # pre[1].schema

\* ---- order validation ----
OrderError(a, b) == Err("Not run migration is preceding already run migration", a, b)

\* the invocation has read the directory and the history
Loaded == \E i \in 1..Len(sent[1]) : sent[1][i].st = Stmt("SELECT", "name")

\* position i is below both lengths and the names there differ
Mismatch(i) ==
    /\ i \in 1..Len(runNames[1]) /\ i \in 1..Len(migrations[1])
    /\ runNames[1][i] # migrations[1][i]

FirstMismatch(i) == Mismatch(i) /\ \A j \in 1..(i - 1) : ~Mismatch(j)

OrderChecked == Final /\ Loaded /\ opt[1].checkOrder

\* C5, as claimed: with checkOrder, a positional mismatch makes the run fail
\* with the error naming the pair at the smallest mismatching position, before
\* any migration is applied and with the database untouched: history table,
\* history rows and schema are as before the run.
C5_AsClaimed ==
    \A i \in 1..Len(AllNames) :
        (OrderChecked /\ FirstMismatch(i)) =>
            /\ err[1] = OrderError(migrations[1][i], runNames[1][i])
            /\ toRun[1] = <<>> /\ ~TouchedMigrations(1)
            /\ Committed = pre[1]

\* C5: with checkOrder, a positional mismatch makes the run fail with the
\* error naming the pair at the smallest mismatching position, before any
\* migration is applied: no migration statement and no statement on the
\* history rows is executed, and schema and history rows are as before the
\* run (the history table itself may have been created or given its primary
\* key, the lock taken and the history read).
C5_OrderErrorBeforeApplying ==
    \A i \in 1..Len(AllNames) :
        (OrderChecked /\ FirstMismatch(i)) =>
            /\ err[1] = OrderError(migrations[1][i], runNames[1][i])
            /\ toRun[1] = <<>> /\ ~TouchedMigrations(1)
            /\ history = pre[1].history /\ schema = pre[1].schema

\* recorded and discovered names differ at two positions and the run failed
\* on the order
C5_Witness ==
    /\ OrderChecked
    /\ \E i, j \in 1..Len(AllNames) : i < j /\ Mismatch(i) /\ Mismatch(j)
    /\ err[1].msg = OrderError("", "").msg

IsPrefix(a, b) == Len(a) <= Len(b) /\ \A i \in 1..Len(a) : a[i] = b[i]

OrderAccepted == err[1].msg # OrderError("", "").msg

\* C6, as claimed: order validation accepts an up run exactly when the
\* recorded names are a prefix of the discovered names.
C6_AsClaimed ==
    (OrderChecked /\ opt[1].direction = "up")
        => (OrderAccepted <=> IsPrefix(runNames[1], migrations[1]))

\* C6: order validation accepts an up run exactly when recorded and discovered
\* names agree at every position below the shorter of the two lengths, so
\* exactly when one sequence is a prefix of the other; a recorded history
\* longer than the discovered list that agrees with it is accepted.
C6_OrderAcceptsAgreement ==
    (OrderChecked /\ opt[1].direction = "up")
        => (OrderAccepted <=>
              (IsPrefix(runNames[1], migrations[1])
                 \/ IsPrefix(migrations[1], runNames[1])))

\* an up run passed order validation with more recorded names than files
C6_Witness ==
    /\ OrderChecked /\ opt[1].direction = "up" /\ OrderAccepted
    /\ Len(runNames[1]) > Len(migrations[1]) /\ Len(migrations[1]) >= 1

\* ---- two invocations in a row ----
\* invocation 1 follows a remembered invocation with nothing changed between
SecondOfTwo == Final /\ last.valid /\ last.files = files

\* C7, as claimed: an up run that repeats a successful up run with the same
\* configuration and files applies nothing, changes no history row, returns
\* the empty list and raises no error.
C7_AsClaimed ==
    (SecondOfTwo /\ opt[1].direction = "up" /\ last.opt = opt[1] /\ last.err = NoErr)
        => /\ toRun[1] = <<>> /\ result[1] = <<>> /\ err[1] = NoErr
           /\ ~TouchedMigrations(1)
           /\ history = pre[1].history

\* C7: an up run that repeats a successful up run with the same configuration
\* and files, the first run having left no discovered migration unrecorded
\* (no count, timestamp or file selection held a pending one back, and it was
\* not a dry run), applies nothing, changes no history row, returns the empty
\* list and raises no error.
C7_UpTwiceIdempotent ==
    (SecondOfTwo /\ opt[1].direction = "up" /\ last.opt = opt[1] /\ last.err = NoErr
       /\ \A n \in files : InSeq(n, pre[1].history))
        => /\ toRun[1] = <<>> /\ result[1] = <<>> /\ err[1] = NoErr
           /\ ~TouchedMigrations(1)
           /\ history = pre[1].history

\* the first of the two runs applied migrations, the second came after it
C7_Witness ==
    /\ SecondOfTwo /\ opt[1].direction = "up" /\ last.opt = opt[1] /\ last.err = NoErr
    /\ \A n \in files : InSeq(n, pre[1].history)
    /\ Len(last.result) >= 2 /\ Applies(last.opt)

\* invocation 1 reverted, alone and successfully, the migration x that the
\* remembered invocation had applied alone and successfully
UpThenDown(x) ==
    /\ Final /\ last.valid
    /\ last.opt.direction = "up" /\ Applies(last.opt)
    /\ last.toRun = <<x>> /\ last.err = NoErr
    /\ opt[1].direction = "down" /\ Applies(opt[1])
    /\ toRun[1] = <<x>> /\ err[1] = NoErr

\* C8: for a migration with an explicit down that reverses its up, applying
\* it up in one successful run and down in the next leaves history rows and
\* schema equal to what they were before the up run.
C8_RoundTrip ==
    \A x \in Names :
        (UpThenDown(x) /\ DownField(x) = "down")
            => (history = last.pre.history /\ schema = last.pre.schema)

\* 2_b went up and down again: its row is absent, the constraint it dropped
\* is back
C8_Witness ==
    /\ UpThenDown("2_b")
    /\ ~Recorded("2_b") /\ "t1.k" \in schema
    /\ Len(sent[1]) > 0

\* ---- auto-inferred down ----
IsWrap(st) == st \in {BEGIN, COMMIT}

\* the statements invocation 1 sent for migration n, transaction wrap aside
MigSent(n) ==
    LET es == SelectSeq(sent[1], LAMBDA e : e.mig = n /\ ~IsWrap(e.st))
    IN  [i \in 1..Len(es) |-> es[i].st]

\* every statement sent for migration n succeeded
MigSentOk(n) == \A i \in 1..Len(sent[1]) : sent[1][i].mig = n => sent[1][i].ok

\* the operation calls of n's up body
OpCalls(n) == SelectSeq(UpBody(n), LAMBDA c : c.op # "noTransaction")

\* n exports only up and calls only operations that have a reverse
OnlyUpReversible(n) ==
    /\ DownField(n) = "undefined"
    /\ \A i \in 1..Len(OpCalls(n)) : HasReverse(OpCalls(n)[i].op)

\* the reverse statements of calls i, i-1, ..., 1
RECURSIVE ReversesFrom(_, _)
ReversesFrom(calls, i) ==
    IF i = 0 THEN <<>> ELSE ReverseOf(calls[i]) \o ReversesFrom(calls, i - 1)

ExpectedDown(n) ==
    Append(ReversesFrom(OpCalls(n), Len(OpCalls(n))), Stmt("DELETE", n))

\* invocation 1 has gone through all statements of migration n
Completed(n) == \E j \in 1..Len(toRun[1]) : j < idx[1] /\ toRun[1][j] = n

\* C9: when a down run that executes migrations (not fake) reverts a migration
\* that exports only up and calls only reversible operations c1..cn, the
\* statements it executes for it are, at every moment, the beginning of: the
\* reverse of cn, ..., the reverse of c1, the history DELETE; and once the
\* migration is through (not a dry run), it has executed exactly these, each
\* successfully.
C9_AutoDownReverseOrder ==
    \A n \in Names :
        (opt[1].direction = "down" /\ ~opt[1].fake /\ OnlyUpReversible(n)) =>
            /\ IsPrefix(MigSent(n), ExpectedDown(n))
            /\ (Completed(n) /\ ~opt[1].dryRun)
                  => (MigSent(n) = ExpectedDown(n) /\ MigSentOk(n))

\* 3_c, up only with two reversible calls, has been reverted by a down run
C9_Witness ==
    /\ Final /\ err[1] = NoErr
    /\ opt[1].direction = "down" /\ Applies(opt[1])
    /\ Completed("3_c") /\ OnlyUpReversible("3_c") /\ Len(OpCalls("3_c")) >= 2
    /\ MigSent("3_c") # <<>>
    /\ ~Recorded("3_c")

NoReverseError == "Impossible to automatically infer down migration"

\* C10: when an operation without a reverse is called in reverse mode, the
\* migration fails with an error that names the operation, none of its
\* statements is executed (those of reversible operations called earlier in
\* the body neither), and its history row is as before the run.
C10_IrreversibleNamed ==
    (err[1].msg = NoReverseError) =>
        LET n == toRun[1][idx[1]]
        IN  /\ err[1].a # ""
            /\ \A i \in 1..Len(sent[1]) : sent[1][i].mig # n
            /\ Recorded(n) = InSeq(n, pre[1].history)

\* C10 apart from the name: the failure, no statement of the migration, its
\* history row unchanged
C10_NothingExecuted ==
    (err[1].msg = NoReverseError) =>
        LET n == toRun[1][idx[1]]
        IN  /\ \A i \in 1..Len(sent[1]) : sent[1][i].mig # n
            /\ Recorded(n) = InSeq(n, pre[1].history)

\* ---- the selection of getMigrationsToRun ----
\* invocation 1 has selected its migrations
Selected == Loaded /\ err[1] = NoErr

SetOf(s) == {s[i] : i \in 1..Len(s)}

FileOk(n) == opt[1].file = "" \/ opt[1].file = n

\* the discovered migrations not recorded, the file filter applied
PendingUp == {n \in SetOf(migrations[1]) : n \notin SetOf(runNames[1]) /\ FileOk(n)}

\* s lists its elements in the order of the directory listing, each once
InDiscoveredOrder(s) == \A i, j \in 1..Len(s) : i < j => Rank(s[i]) < Rank(s[j])

\* C11: an up run selects exactly the discovered migrations that are not
\* recorded (and match the file filter), in discovered order; with count N
\* the first N of them (all, when fewer), in timestamp mode those with
\* timestamp <= the value; with five pending and count 2, the first two.
C11_UpPending ==
    (Selected /\ opt[1].direction = "up") =>
        /\ SetOf(toRun[1]) \subseteq PendingUp
        /\ InDiscoveredOrder(toRun[1])
        /\ opt[1].timestamp
             => SetOf(toRun[1]) = {n \in PendingUp : Timestamp(n) <= opt[1].count}
        /\ (~opt[1].timestamp /\ opt[1].count = NoCount) => SetOf(toRun[1]) = PendingUp
        /\ (~opt[1].timestamp /\ opt[1].count # NoCount) =>
              /\ Len(toRun[1]) = Min(opt[1].count, Cardinality(PendingUp))
              /\ \A n \in PendingUp \ SetOf(toRun[1]) :
                    \A m \in SetOf(toRun[1]) : Rank(m) < Rank(n)
        /\ (Cardinality(PendingUp) = 5 /\ ~opt[1].timestamp /\ opt[1].count = 2)
              => toRun[1] = <<migrations[1][1], migrations[1][2]>>

\* five pending migrations, count 2: the first two of the listing are selected
C11_Witness ==
    /\ Selected /\ opt[1].direction = "up"
    /\ Cardinality(PendingUp) = 5 /\ ~opt[1].timestamp /\ opt[1].count = 2
    /\ toRun[1] = <<"10_d", "1_a">>

\* the recorded names, the file filter applied, in recorded order
RecordedDown == SelectSeq(runNames[1], FileOk)

\* s is the last k elements of rec, most recent first
LastReversed(s, rec, k) ==
    /\ Len(s) = k
    /\ \A i \in 1..k : s[i] = rec[Len(rec) + 1 - i]

DownCount == IF opt[1].count = NoCount THEN 1 ELSE opt[1].count

\* C12: a down run in count mode with count N >= 0 (1 when none is given)
\* selects exactly the last min(N, number of recorded names after the file
\* filter) recorded migrations, most recent first.
C12_DownLastN ==
    (Selected /\ opt[1].direction = "down" /\ ~opt[1].timestamp) =>
        LastReversed(toRun[1], RecordedDown, Min(DownCount, Len(RecordedDown)))

\* C12 for N >= 1
C12_PositiveCounts ==
    (Selected /\ opt[1].direction = "down" /\ ~opt[1].timestamp /\ DownCount >= 1) =>
        LastReversed(toRun[1], RecordedDown, Min(DownCount, Len(RecordedDown)))

DeletedError == "Definitions of migrations have been deleted"

\* the recorded names a down run is asked to revert
AskedDown ==
    IF opt[1].timestamp
    THEN {n \in SetOf(RecordedDown) : Timestamp(n) >= opt[1].count}
    ELSE {RecordedDown[Len(RecordedDown) + 1 - i] :
            i \in 1..Min(DownCount, Len(RecordedDown))}

\* those of them whose file is gone
AskedDeleted == AskedDown \ SetOf(migrations[1])

\* the run failed on exactly the deleted names, having executed nothing
FailedOnDeleted ==
    /\ err[1].msg = DeletedError
    /\ SetOf(err[1].names) = AskedDeleted
    /\ toRun[1] = <<>> /\ ~TouchedMigrations(1)

\* C13: a down run, in count mode and in timestamp mode alike, that is asked
\* to revert a recorded name without a discovered file fails with the error
\* listing every such name, before any migration statement is executed.
C13_DeletedFilesFail ==
    (Loaded /\ opt[1].direction = "down" /\ AskedDeleted # {}) => FailedOnDeleted

\* C13 in count mode
C13_CountMode ==
    (Loaded /\ opt[1].direction = "down" /\ ~opt[1].timestamp /\ AskedDeleted # {})
        => FailedOnDeleted

Reverse(s) == [i \in 1..Len(s) |-> s[Len(s) + 1 - i]]

AtOrAfter(n) == Timestamp(n) >= opt[1].count

\* C14: a down run in timestamp mode reverts exactly the recorded migrations
\* (after the file filter) whose timestamp is >= the given value, in the
\* reverse of their recorded run order.
C14_DownTimestamp ==
    (Selected /\ opt[1].direction = "down" /\ opt[1].timestamp)
        => toRun[1] = Reverse(SelectSeq(RecordedDown, AtOrAfter))

\* C14 for histories whose recorded names all have a discovered file
C14_FilesPresent ==
    (Selected /\ opt[1].direction = "down" /\ opt[1].timestamp
        /\ SetOf(runNames[1]) \subseteq SetOf(migrations[1]))
        => toRun[1] = Reverse(SelectSeq(RecordedDown, AtOrAfter))

\* the history statement of a migration in the direction of the run
HistoryStmt(n) == Stmt(IF opt[1].direction = "up" THEN "INSERT" ELSE "DELETE", n)

\* everything invocation 1 sent for a migration, transaction wraps included
AllMigSent == SelectSeq(sent[1], LAMBDA e : e.mig # "")

\* the run returns its list
Succeeded == Final /\ Loaded /\ err[1] = NoErr

\* C15: a run with fake enabled executes, for each selected migration, only
\* its history statement (INSERT for up, DELETE for down) and never a statement
\* of a migration body; the schema stays as it was before the run, and after a
\* successful run every selected migration is recorded (up) or no longer
\* recorded (down).
C15_FakeMarksOnly ==
    opt[1].fake =>
        /\ \A i \in 1..Len(AllMigSent) :
              /\ i <= Len(toRun[1])
              /\ AllMigSent[i].st = HistoryStmt(toRun[1][i])
              /\ AllMigSent[i].mig = toRun[1][i]
        /\ schema = pre[1].schema
        /\ txn[1] = "none"
        /\ Succeeded =>
              /\ Len(AllMigSent) = Len(toRun[1])
              /\ \A i \in 1..Len(toRun[1]) :
                    Recorded(toRun[1][i]) <=> opt[1].direction = "up"

C15_Witness ==
    /\ Succeeded /\ opt[1].fake /\ opt[1].direction = "up"
    /\ Len(toRun[1]) = 3 /\ Len(AllMigSent) = 3
    /\ history # pre[1].history
    /\ schema = pre[1].schema

\* invocation 1 executed nothing of a migration and left schema and history
\* rows as they were before it
NothingApplied ==
    /\ ~TouchedMigrations(1)
    /\ schema = pre[1].schema
    /\ history = pre[1].history

\* C16: with dryRun enabled, for every combination of direction, fake and
\* singleTransaction, no statement of a migration and no history statement is
\* executed, and schema and history rows stay as they were before the run.
C16_DryRunExecutesNothing == opt[1].dryRun => NothingApplied

\* C16 for dry runs without fake
C16_WithoutFake == (opt[1].dryRun /\ ~opt[1].fake) => NothingApplied

\* the migrations invocation 1 applied or marked so far, in that order: those
\* whose history statement was executed
AppliedNames ==
    LET es == SelectSeq(sent[1], LAMBDA e : /\ e.mig # "" /\ e.ok
                                            /\ e.st.k \in {"INSERT", "DELETE"})
    IN  [i \in 1..Len(es) |-> es[i].mig]

\* res lists the migrations named ns, one {path, name, timestamp} each, in order
Lists(res, ns) ==
    /\ Len(res) = Len(ns)
    /\ \A i \in 1..Len(ns) :
          /\ res[i].name = ns[i]
          /\ res[i].path.base = ns[i]
          /\ res[i].timestamp = Timestamp(ns[i])

\* C17 as stated: a successful run returns exactly the migrations it applied
\* or marked, as {path, name, timestamp} in the order applied; a failed run
\* returns no list.
C17_AsClaimed ==
    Final => IF err[1] = NoErr THEN Lists(result[1], AppliedNames)
                               ELSE result[1] = <<>>

\* C17: a successful run returns exactly the migrations it applied or marked,
\* as {path, name, timestamp} in the order applied, and a dry run without fake,
\* which applies nothing, returns the migrations it selected; a failed run
\* raises its error and returns no list, whatever it applied before failing.
C17_ResultContract ==
    Final => IF err[1] = NoErr
             THEN Lists(result[1], IF opt[1].dryRun /\ ~opt[1].fake
                                      THEN toRun[1] ELSE AppliedNames)
             ELSE result[1] = <<>>

C17_Witness ==
    /\ Final /\ err[1] # NoErr /\ AppliedNames # <<>> /\ result[1] = <<>>
    /\ last.valid /\ last.err = NoErr /\ Len(last.result) = 2
    /\ last.result[1].name = "1_a" /\ last.result[1].timestamp = 1

Running == pc[1] # "idle"

\* the invocation has ended and its connection was closed once
ClosedOnce == pc[1] = "idle" /\ closes[1] = 1

\* C18: after connecting, whether the run returns a list, finds nothing to
\* run, or fails at any step, the connection is eventually closed, and it is
\* closed exactly once: never twice, and never left open by a run that ended.
C18_ConnectionReleased ==
    /\ Running ~> ClosedOnce
    /\ [](closes[1] <= 1)
    /\ []((pc[1] = "idle" /\ runs > 0) => closes[1] = 1)
    /\ [](Running => closes[1] = 0)

\* the steps at which invocation 1 can fail
FailedAt ==
    IF err[1].msg = "query rejected" THEN err[1].a
    ELSE IF err[1].msg = "Can't get migration files" THEN "loading"
    ELSE IF err[1].msg = OrderError("", "").msg THEN "order check"
    ELSE IF err[1].msg = DeletedError THEN "selection"
    ELSE IF err[1] # NoErr THEN "apply"
    ELSE ""

\* a run whose ROLLBACK was rejected, after an earlier run, about to close
C18_Witness ==
    /\ pc[1] = "close" /\ closes[1] = 0 /\ runs = MaxRuns
    /\ FailedAt = "rollback" /\ txn[1] = "aborted"

\* invocation 1 failed on its configuration: the directory or the pattern
SetupError == err[1].msg = "Can't get migration files"

\* invocation 1 requested the advisory lock
LockRequested == \E i \in 1..Len(sent[1]) : sent[1][i].st.k = "LOCK"

\* C19: when the migrations directory is missing or the ignore pattern is
\* malformed, the run fails before the advisory lock is requested and before
\* any SQL statement is sent to the executor.
C19_SetupErrorsAbortEarly == SetupError => (~LockRequested /\ sent[1] = <<>>)

\* the statements invocation 1 sent for migration n, in the order sent
StmtsOf(n) ==
    LET es == SelectSeq(sent[1], LAMBDA e : e.mig = n)
    IN  [i \in 1..Len(es) |-> es[i].st]

\* position of n in the batch
BatchIndex(n) == CHOOSE i \in 1..Len(toRun[1]) : toRun[1][i] = n

\* a statement of a migration failed
StatementFailed == \E i \in 1..Len(AllMigSent) : ~AllMigSent[i].ok

\* C20: the statements of a migration reach the executor one at a time in the
\* order of its statement sequence: while a migration is being applied, what
\* was sent for it is the part of its sequence before the next statement, and
\* once it is done, the whole sequence; migrations are served in batch order.
\* A failed statement is the last statement of any migration that is sent: no
\* later statement of that migration, none of a later migration; the run then
\* applies nothing more, raises the error and returns no list.
C20_InOrderStopAtFailure ==
    /\ \A i, j \in 1..Len(AllMigSent) :
          i < j => BatchIndex(AllMigSent[i].mig) <= BatchIndex(AllMigSent[j].mig)
    /\ \A i \in 1..Len(AllMigSent) : ~AllMigSent[i].ok => i = Len(AllMigSent)
    /\ (Applies(opt[1]) /\ pc[1] = "exec")
          => StmtsOf(toRun[1][idx[1]]) = SubSeq(steps[1], 1, sidx[1] - 1)
    /\ (Applies(opt[1]) /\ pc[1] = "apply" /\ idx[1] > 1)
          => StmtsOf(toRun[1][idx[1] - 1]) = steps[1]
    /\ (Applies(opt[1]) /\ Succeeded /\ toRun[1] # <<>>)
          => StmtsOf(toRun[1][Len(toRun[1])]) = steps[1]
    /\ StatementFailed =>
          /\ pc[1] \in {"rollback", "close"}
          /\ err[1] # NoErr /\ result[1] = <<>>
          /\ opt[1].fake \/ StmtsOf(toRun[1][idx[1]]) = SubSeq(steps[1], 1, sidx[1])

\* the first of two migrations fails at its first statement, with a statement
\* of its own and a whole migration still to come
C20_Witness ==
    /\ Final /\ StatementFailed /\ Applies(opt[1])
    /\ Len(toRun[1]) = 2 /\ idx[1] = 1
    /\ sidx[1] < Len(steps[1])
    /\ StmtsOf(toRun[1][2]) = <<>>

IsHistoryStmt(st) == st.k \in {"INSERT", "DELETE"}

IsBodyStmt(st) == st.k \in {"CREATE", "DROP", "SQL"}

\* the migrations of the batch that invocation 1 has applied completely
AppliedSoFar ==
    IF Applies(opt[1]) /\ Loaded /\ idx[1] > 0
    THEN {toRun[1][i] : i \in 1..Min(idx[1] - 1, Len(toRun[1]))}
    ELSE {}

\* s has exactly one history statement, the one of n in the direction of the
\* run, after every body statement and followed by nothing but the statement
\* that closes the wrap
OneHistoryStmt(s, n) ==
    \E m \in 1..Len(s) :
        /\ s[m] = HistoryStmt(n)
        /\ \A i \in 1..Len(s) : IsHistoryStmt(s[i]) => i = m
        /\ \A i \in 1..Len(s) : IsBodyStmt(s[i]) => i < m
        /\ s[1] = BEGIN => (m = Len(s) - 1 /\ s[Len(s)] = COMMIT)
        /\ s[1] = COMMIT => (m = Len(s) - 1 /\ s[Len(s)] = BEGIN)
        /\ ~IsWrap(s[1]) => m = Len(s)

\* C21: the statements executed for an applied migration contain exactly one
\* history statement, after all statements of the action body and before the
\* COMMIT of the migration's own BEGIN/COMMIT; it is the INSERT of the name for
\* up and the DELETE by name for down, also when down is inferred from up.
C21_OneHistoryStatement ==
    \A n \in AppliedSoFar : OneHistoryStmt(StmtsOf(n), n)

\* 3_c, which has no down action, was reverted inside its own transaction
C21_Witness ==
    /\ opt[1].direction = "down" /\ "3_c" \in AppliedSoFar
    /\ StmtsOf("3_c") = <<BEGIN, Stmt("DROP", "t2.k"), Stmt("DROP", "t2"),
                          Stmt("DELETE", "3_c"), COMMIT>>

\* the migration invocation 1 is applying
Current == toRun[1][idx[1]]

\* the body its action runs: the down function if the file has one and the
\* direction is down, else the up function
CurrentBody ==
    IF opt[1].direction = "down" /\ DownField(Current) = "down"
    THEN DownBody(Current) ELSE UpBody(Current)

\* the body does not call pgm.noTransaction()
WantsTransaction == \A i \in 1..Len(CurrentBody) : CurrentBody[i].op # "noTransaction"

\* s without its first and last statement
Inner(s) == SubSeq(s, 2, Len(s) - 1)

NoWrapIn(s) == \A i \in 1..Len(s) : ~IsWrap(s[i])

\* C22: not in single-transaction mode and the migration wants a transaction:
\* its statement sequence starts with BEGIN and ends with COMMIT; in
\* single-transaction mode and the migration disabled transactions: it starts
\* with COMMIT and ends with BEGIN; in the two other cases the sequence has no
\* BEGIN and no COMMIT.
C22_TransactionReconciliation ==
    pc[1] = "exec" =>
        LET s == steps[1]
        IN  IF ~opt[1].singleTransaction /\ WantsTransaction
            THEN Len(s) >= 2 /\ s[1] = BEGIN /\ s[Len(s)] = COMMIT /\ NoWrapIn(Inner(s))
            ELSE IF opt[1].singleTransaction /\ ~WantsTransaction
                 THEN /\ Len(s) >= 2 /\ s[1] = COMMIT /\ s[Len(s)] = BEGIN
                      /\ NoWrapIn(Inner(s))
                 ELSE NoWrapIn(s)

\* 2_b, which disables transactions, is applied in single-transaction mode
C22_Witness ==
    /\ pc[1] = "exec" /\ opt[1].singleTransaction /\ Current = "2_b"
    /\ steps[1] = <<COMMIT, Stmt("DROP", "t1.k"), Stmt("INSERT", "2_b"), BEGIN>>

\* what the file of n gives for direction d: its own field, or for down
\* without a down field, its up field
Resolved(n, d) ==
    IF d = "down" /\ DownField(n) # "undefined" THEN DownField(n) ELSE UpField(n)

\* invocation 1 has called apply or markAsRun on the current migration and
\* the call has resolved its action
ActionResolved ==
    /\ idx[1] = 1
    /\ pc[1] \in {"mode", "body", "exec", "commit", "rollback", "close"}

\* C23: for direction down with no down action supplied, the up action is
\* used and the builder is in reverse mode when the body runs; if the resolved
\* action is the disabled marker the call fails with the disabled-direction
\* error, if it is not a function with the missing-function error, and in both
\* cases no statement of the migration and no history statement is executed.
C23_ActionResolution ==
    ActionResolved =>
        LET n == Current
            a == Resolved(n, opt[1].direction)
        IN  /\ (pc[1] \in {"body", "exec"} /\ opt[1].direction = "down"
                   /\ DownField(n) = "undefined")
                  => (ActionOf(1) = UpField(n) /\ pgm[1].reverseMode)
            /\ a = "false" =>
                  /\ err[1] = Err("User has disabled migration", opt[1].direction, "")
                  /\ ~TouchedMigrations(1)
                  /\ pc[1] \in {"rollback", "close"}
            /\ a = "undefined" =>
                  /\ err[1] = Err("Unknown value for direction", opt[1].direction, "")
                  /\ ~TouchedMigrations(1)
                  /\ pc[1] \in {"rollback", "close"}

\* a fake down of 4_f, whose down is disabled, has failed
C23_Witness ==
    /\ ActionResolved /\ Current = "4_f" /\ opt[1].direction = "down" /\ opt[1].fake
    /\ err[1].msg = "User has disabled migration"
    /\ history = <<"4_f">>

\* the body invocation 1 is running, read from the file's fields
RunningBody ==
    IF Resolved(Current, opt[1].direction) = "down" THEN DownBody(Current)
                                                     ELSE UpBody(Current)

\* the next call of the running body is a call of pgm.db
AtDbCall ==
    /\ pc[1] = "body" /\ bidx[1] <= Len(RunningBody)
    /\ RunningBody[bidx[1]].op \in DbOps

\* the pgm.db calls that reached the executor
DbSent == SelectSeq(sent[1], LAMBDA e : e.st.k \in DbOps)

ReverseModeError == "Impossible to automatically infer down migration"

\* C24: a call of pgm.db.query or pgm.db.select made while the builder is in
\* reverse mode throws and sends nothing to the executor; made in forward
\* mode it is passed to the executor.
C24_SideChannelOffInReverse ==
    [][AtDbCall =>
         LET c == RunningBody[bidx[1]]
         IN  IF pgm[1].reverseMode
             THEN /\ sent' = sent
                  /\ err'[1].msg = ReverseModeError
                  /\ pc'[1] \in {"rollback", "close"}
             ELSE /\ sent'[1] = Append(sent[1], Sent(Current, Stmt(c.op, c.a), TRUE))
                  /\ err' = err
                  /\ pc'[1] = "body"]_vars

\* the down of 7_i, inferred from an up that calls pgm.db.select, has thrown
C24_Witness ==
    /\ idx[1] = 1 /\ Current = "7_i" /\ opt[1].direction = "down"
    /\ pgm[1].reverseMode /\ bidx[1] = 2
    /\ err[1] = Err(ReverseModeError, "", "db.select")
    /\ DbSent = <<>>

\* the statement at position j of the trace is the first sent for its migration
StartsBlock(j) == j = 1 \/ AllMigSent[j - 1].mig # AllMigSent[j].mig

\* position of the first statement of the block that holds position j
BlockStart(j) == CHOOSE i \in 1..j : StartsBlock(i) /\ \A k \in (i + 1)..j : ~StartsBlock(k)

\* the block that ends at position j is a whole statement sequence, executed:
\* it closes the wrap it opened, or ends with the history statement
BlockComplete(j) ==
    LET first == AllMigSent[BlockStart(j)].st
        final == AllMigSent[j].st
    IN  /\ \A k \in BlockStart(j)..j : AllMigSent[k].ok
        /\ IF first = BEGIN THEN final = COMMIT /\ j > BlockStart(j)
           ELSE IF first = COMMIT THEN final = BEGIN /\ j > BlockStart(j)
           ELSE IsHistoryStmt(final)

\* C25: within one invocation migrations are applied strictly sequentially, in
\* the order of the pending set: the statements reach the executor migration
\* by migration, starting with the first of the batch; the first statement of
\* a migration is sent only when the sequence of the one before it in the
\* batch was sent to its end and every statement of it succeeded; so at most
\* one migration, the last one in the trace, is in progress.
C25_StrictlySequential ==
    \A j \in 1..Len(AllMigSent) :
        StartsBlock(j) =>
            IF j = 1
            THEN AllMigSent[j].mig = toRun[1][1]
            ELSE /\ BatchIndex(AllMigSent[j].mig) = BatchIndex(AllMigSent[j - 1].mig) + 1
                 /\ BlockComplete(j - 1)

\* a batch of three was applied to its end
C25_Witness ==
    /\ Succeeded /\ Applies(opt[1]) /\ Len(toRun[1]) = 3
    /\ AllMigSent[1].mig = toRun[1][1]
    /\ AllMigSent[Len(AllMigSent)].mig = toRun[1][3]
    /\ BlockComplete(Len(AllMigSent))

\* the recorded names and the discovered migrations disagree at a position
\* both have
OrderDisagrees == \E i \in 1..Len(FileNames) : Mismatch(i)

\* C26: when the configuration passed to the runner does not set checkOrder,
\* the order validation is performed: a run that has loaded names and
\* migrations which disagree fails with the order error.
C26_CheckOrderDefaultOn ==
    (Loaded /\ ~opt[1].checkOrderGiven /\ OrderDisagrees)
        => err[1].msg = "Not run migration is preceding already run migration"

\* the runner's own ROLLBACK statements, by position in the trace
Rollbacks == {i \in 1..Len(sent[1]) : sent[1][i].mig = "" /\ sent[1][i].st = ROLLBACK}

\* a single-transaction run whose batch failed, about to hand its error to the
\* caller
SingleFailed == BatchFailed /\ opt[1].singleTransaction /\ ~opt[1].fake

NoUnlockSent ==
    \A i \in 1..Len(sent[1]) :
        sent[1][i].st.k \in {"LOCK", "UNLOCK"} => sent[1][i].st.k = "LOCK"

\* the lock leaves invocation 1 only when its session is closed
HeldUntilClose ==
    (lockHolder = 1 /\ lockHolder' # 1) => (pc[1] = "close" /\ pc'[1] = "idle")

\* C28: the advisory lock lives as long as the runner's session.  The runner
\* sends no unlock; an invocation that holds the lock keeps it until it closes
\* its connection; every invocation that holds it comes to release it, however
\* it ends; between invocations the lock is free, and an invocation that asks
\* for it afterwards finds it free and obtains it.
C28_LockLivesWithSession ==
    /\ [](/\ NoUnlockSent
          /\ pc[1] = "idle" => lockHolder = 0
          /\ pc[1] = "lock" => lockHolder = 0
          /\ (LockRequested /\ pc[1] \notin {"close", "idle"}) => lockHolder = 1)
    /\ [][HeldUntilClose]_vars
    /\ (lockHolder = 1 ~> lockHolder = 0)

\* a second invocation has obtained the lock an earlier one held, and is
\* itself about to end in an error while holding it
C28_Witness ==
    /\ runs = 2 /\ pc[1] = "close" /\ err[1] # NoErr
    /\ LockRequested /\ lockHolder = 1

\* invocation 1 has just left ensureMigrationsTable
EnsureDone ==
    \/ pc[1] = "lock"
    \/ pc[1] = "load" /\ opt[1].noLock
    \/ pc[1] = "close" /\ err[1].msg = "Unable to ensure migrations table"

\* what ensureMigrationsTable has to send on a database whose history table
\* is in state ts
EnsureExpected(ts) ==
    CASE ts = "absent" -> <<Sent("", Stmt("CREATE TABLE", "pgmigrations"), TRUE)>>
      [] ts = "nopk" -> <<Sent("", Stmt("ADD PRIMARY KEY", "pgmigrations"), TRUE)>>
      [] ts = "pk" -> <<>>

\* C29: ensuring the history table.  When the step is over the table exists
\* with a primary key and the step has not failed; what it sent is CREATE
\* TABLE if there was no table, ADD PRIMARY KEY if the table had none, and
\* nothing if it had one; the history rows and the schema are what they were
\* before.  Performed again in a later invocation, the step finds the table
\* with its primary key and so sends nothing: twice gives the state of once.
C29_EnsureMigrationsTable ==
    EnsureDone =>
        /\ err[1] = NoErr
        /\ tableState = "pk"
        /\ sent[1] = EnsureExpected(pre[1].tableState)
        /\ history = pre[1].history
        /\ schema = pre[1].schema
        /\ runs > 1 => pre[1].tableState = "pk"

\* the step has added the primary key to a table that holds a row, and the
\* row is still there
C29_Witness ==
    /\ EnsureDone /\ pre[1].tableState = "nopk" /\ tableState = "pk"
    /\ history = <<"1_a">>
    /\ sent[1] = <<Sent("", Stmt("ADD PRIMARY KEY", "pgmigrations"), TRUE)>>

\* the Builder Context of the migration being applied is in use: its action
\* body is running, or has run and its statements are being executed
ContextInUse == pc[1] \in {"body", "exec"}

\* the value the flag has to have for the migration being applied: reverse
\* mode is for a down migration inferred from up
InferredDown == opt[1].direction = "down" /\ DownField(Current) = "undefined"

\* the flag of the context changes in this step
FlagChanges == pgm'[1].reverseMode # pgm[1].reverseMode

Unwrapped == pc[1] = "exec" /\ steps[1][1] \notin {BEGIN, COMMIT}

NotWrappedWarning == "This migration is not wrapped in a transaction!"

Logged(w) == \E i \in 1..Len(log[1]) : log[1][i] = w

\* C31 as stated: in every case where neither the wrap nor the break applies
\* the warning is logged, and no error is raised.
C31_UnwrappedAlwaysWarns ==
    Unwrapped => (Logged(NotWrappedWarning) /\ err[1] = NoErr)

\* C31 amended: when neither the wrap nor the break applies no error is
\* raised; the warning is logged if the run is not in single-transaction mode
\* (the migration called noTransaction), and it is not logged in
\* single-transaction mode, where the statements run in the global
\* transaction.  A wrapped migration logs no such warning.
C31_UnwrappedWarnsOutsideGlobal ==
    /\ Unwrapped => err[1] = NoErr
    /\ (Unwrapped /\ ~opt[1].singleTransaction) => log[1] = <<NotWrappedWarning>>
    /\ (Unwrapped /\ opt[1].singleTransaction) => log[1] = <<>>
    /\ (pc[1] = "exec" /\ ~Unwrapped) => ~Logged(NotWrappedWarning)

\* a migration that called noTransaction, outside single-transaction mode,
\* has its unwrapped statements executed and the warning logged
C31_Witness ==
    /\ Unwrapped /\ ~opt[1].singleTransaction /\ ~pgm[1].useTransaction
    /\ Logged(NotWrappedWarning)
    /\ sidx[1] > 1

\* the statements of the current migration's statement sequence that have
\* reached the executor (the queries its body sent through pgm.db apart)
SequenceSent ==
    SelectSeq(sent[1], LAMBDA e : e.mig # "" /\ e.st.k \notin DbOps)

\* the body of the current migration has signalled its completion: a
\* two-argument action has called the callback it was given, a one-argument
\* action has run to its end and the promise it returned is resolved
CompletionSignalled ==
    IF Arity(Current) = 2
    THEN \E i \in 1..(bidx[1] - 1) : CurrentBody[i].op = "resolve"
    ELSE bidx[1] > Len(CurrentBody) /\ resolved[1]

\* _apply reads the transaction flag and builds the statement sequence
ReadsFlag == pc[1] = "body" /\ pc'[1] = "exec"

\* C32: no statement of a migration's statement sequence is sent to the
\* executor before its action body has signalled completion (the callback was
\* called, or the returned promise resolved), and the transaction flag is read
\* only after that completion: the sequence is built in a step that finds the
\* completion signalled, and it is wrapped according to the flag as the whole
\* body left it.  (Queries the body itself sends through pgm.db are not part
\* of the statement sequence.)
C32_NothingBeforeCompletion ==
    /\ [](/\ (ContextInUse /\ SequenceSent # <<>>) => CompletionSignalled
          /\ pc[1] = "exec" =>
                /\ CompletionSignalled
                /\ bidx[1] > Len(CurrentBody)
                /\ pgm[1].useTransaction = WantsTransaction
                /\ (steps[1][1] = BEGIN) =
                       (WantsTransaction /\ ~opt[1].singleTransaction))
    /\ [][ReadsFlag => CompletionSignalled /\ SequenceSent = <<>>]_vars

\* a two-argument action called its callback and then, before returning,
\* pgm.noTransaction(): its statements are sent, unwrapped
C32_Witness ==
    /\ pc[1] = "exec" /\ Arity(Current) = 2 /\ ~opt[1].singleTransaction
    /\ SequenceSent # <<>> /\ ~pgm[1].useTransaction
    /\ steps[1][1] # BEGIN

\* the statement at position i of the trace was sent inside a transaction: a
\* BEGIN precedes it with no COMMIT or ROLLBACK in between
InTransactionAt(i) ==
    \E j \in 1..(i - 1) :
        /\ sent[1][j].st = BEGIN
        /\ \A k \in (j + 1)..(i - 1) : sent[1][k].st \notin {COMMIT, ROLLBACK}

\* C33: every query a migration body sends through pgm.db in forward mode
\* reaches the executor after the BEGIN that wraps the migration and before
\* the matching COMMIT.
C33_SideChannelInTransaction ==
    \A i \in 1..Len(sent[1]) : sent[1][i].st.k \in DbOps => InTransactionAt(i)

\* the migration of a batch of one
Only == toRun[1][1]

\* the body its action runs
OnlyBody ==
    IF opt[1].direction = "down" /\ DownField(Only) = "down"
    THEN DownBody(Only) ELSE UpBody(Only)

\* the body calls pgm.noTransaction()
CallsNoTransaction == \E i \in 1..Len(OnlyBody) : OnlyBody[i].op = "noTransaction"

\* the body statements of the migration that were executed with success
BodyDoneOk ==
    SelectSeq(sent[1], LAMBDA e : e.mig = Only /\ IsBodyStmt(e.st) /\ e.ok)

\* the operations the body calls: each contributes one statement
BodyOps ==
    SelectSeq(OnlyBody, LAMBDA c : c.op \notin DbOps \cup {"noTransaction", "resolve"})

\* nothing of the migration is in effect: the committed schema and history
\* are those from before the run
NoneInEffect == history = pre[1].history /\ schema = pre[1].schema

\* the whole migration is in effect: every body statement was executed and
\* the history row was written (up) or deleted (down), all committed
AllInEffect ==
    /\ Len(BodyDoneOk) = Len(BodyOps)
    /\ history = IF opt[1].direction = "up" THEN Append(pre[1].history, Only)
                                            ELSE RemoveName(pre[1].history, Only)

Closed(i) ==
    \E j \in (i + 1)..Len(sent[1]) : sent[1][j].st \in {COMMIT, ROLLBACK}

\* C35: transactions are balanced: when a run is about to return or to raise,
\* each BEGIN sent to the executor by the runner or by a migration has been
\* followed by a COMMIT or a ROLLBACK, so no transaction is open.
C35_TransactionsBalanced ==
    Final =>
        /\ \A i \in 1..Len(sent[1]) : (sent[1][i].st = BEGIN /\ sent[1][i].ok) => Closed(i)
        /\ txn[1] = "none"

\* h is an initial part of the discovered migration names
PrefixOfDiscovered(h) ==
    LET ms == LoadMigrationFiles(files)
    IN  Len(h) <= Len(ms) /\ \A i \in 1..Len(h) : h[i] = ms[i]

\* C36: over an unchanged set of files, a successful invocation that starts
\* from a history which is a prefix of the discovered migrations leaves a
\* history which is a prefix of them again (so every sequence of successful
\* invocations does, and a following order check passes).
C36_HistoryStaysPrefix ==
    (Succeeded /\ files = Names /\ PrefixOfDiscovered(pre[1].history))
        => PrefixOfDiscovered(history)

\* the last statement the record has sent
LastSent == sent[1][Len(sent[1])].st

\* C37: on a Migration record, apply('up') runs the up action in forward mode
\* and its statement sequence records an INSERT into the history, and
\* markAsRun('up') sends an INSERT, whatever was called on the record before.
C37_UpAlwaysForwardInsert ==
    /\ (pc[1] = "exec" /\ opt[1].direction = "up" /\ ~opt[1].fake) =>
          /\ ~pgm[1].reverseMode
          /\ \E i \in 1..Len(steps[1]) : steps[1][i] = Stmt("INSERT", Only)
          /\ \A i \in 1..Len(steps[1]) : steps[1][i].k # "DELETE"
    /\ (pc[1] = "close" /\ opt[1].direction = "up" /\ opt[1].fake /\ err[1] = NoErr) =>
          LastSent = Stmt("INSERT", Only)

\* ---- loadMigrations: the shorthands handed to the Migration records ----

\* the number of migration files that loadMigrations finds
MaxLoaded ==
    3

\* variant of Merge: an entry that is there already wins
MergeKeepFirst(a, b) ==
    [k \in ShorthandKeys |-> IF a[k] # NoType THEN a[k] ELSE b[k]]

\* { ...a, ...b }
Merge(a, b) ==
    [k \in ShorthandKeys |-> IF b[k] # NoType THEN b[k] ELSE a[k]]

\* one turn of files.map: the file's shorthands are merged into `shorthands`
\* and a copy of the result goes to the new Migration record
LoadFile ==
    LET i == Len(recShorthands) + 1
    IN  /\ i <= Len(fileShorthands)
        /\ shorthands' = Merge(shorthands, fileShorthands[i])
        /\ recShorthands' = Append(recShorthands, shorthands')
        /\ UNCHANGED <<fileShorthands, runnerVars, recVars, connVars, typeVars>>

\* loadMigrations entered: `shorthands` is {}, the files export what they export
InitLoad ==
    /\ InitRunner
    /\ tableState = "absent"
    /\ RecInit
    /\ ConnInit
    /\ TypeInit
    /\ fileShorthands \in [1..MaxLoaded -> [ShorthandKeys -> ColumnDefs \cup {NoType}]]
    /\ shorthands = EmptyShorthands
    /\ recShorthands = <<>>

NextLoad == LoadFile

SpecLoad == InitLoad /\ [][NextLoad]_vars

\* the entry for key k of the last of the files 1..i that exports one
LastExport(i, k) ==
    LET js == {j \in 1..i : fileShorthands[j][k] # NoType}
    IN  IF js = {} THEN NoType
        ELSE fileShorthands[CHOOSE j \in js : \A j2 \in js : j2 <= j][k]

\* C38: the shorthand mapping of the i-th record has, for every key, the
\* entry of the last of the files 1..i that exports the key, and no entry for
\* a key that none of them exports; this holds in every state, so files loaded
\* after i add nothing to it and later loading does not change it.
C38_ShorthandsAccumulate ==
    \A i \in 1..Len(recShorthands) : \A k \in ShorthandKeys :
        recShorthands[i][k] = LastExport(i, k)

\* three files loaded, the second overrides an entry of the first, the third
\* exports a key the first two do not
C38_Witness ==
    /\ Len(recShorthands) >= 3
    /\ fileShorthands[1]["k1"] = "int"
    /\ fileShorthands[2]["k1"] = "text"
    /\ fileShorthands[1]["k2"] = NoType
    /\ fileShorthands[2]["k2"] = NoType
    /\ fileShorthands[3]["k2"] = "int"

\* ---- lib/db.js: the legacy connection module ----

\* client.query(query, ...) reaches the client
ClientQuery(c) == [c EXCEPT !.queries = @ + 1]

\* client.connect(...) is invoked
ClientConnect(c) == [c EXCEPT !.connects = @ + 1]

\* query(query, callback) is called: createConnection either finds
\* client_active set and goes on to client.query at once, or invokes
\* client.connect and waits for its callback
DbQuery(i) ==
    /\ qcalls[i] = "none"
    /\ ~client.ended
    /\ IF client_active
       THEN /\ client' = ClientQuery(client)
            /\ qcalls' = [qcalls EXCEPT ![i] = "querying"]
       ELSE /\ client' = ClientConnect(client)
            /\ qcalls' = [qcalls EXCEPT ![i] = "connecting"]
    /\ UNCHANGED <<client_active, runnerVars, recVars, loadVars, typeVars>>

\* the callback of client.connect runs: with an error it hands the error to
\* the caller; without, it sets client_active and the query is sent
ConnectDone(i) ==
    /\ qcalls[i] = "connecting"
    /\ \E ok \in BOOLEAN :
          IF ok
          THEN /\ client_active' = TRUE
               /\ client' = ClientQuery([client EXCEPT !.connected = TRUE])
               /\ qcalls' = [qcalls EXCEPT ![i] = "querying"]
          ELSE /\ qcalls' = [qcalls EXCEPT ![i] = "failed"]
               /\ UNCHANGED <<client_active, client>>
    /\ UNCHANGED <<runnerVars, recVars, loadVars, typeVars>>

\* the callback of client.query runs
QueryDone(i) ==
    /\ qcalls[i] = "querying"
    /\ \E ok \in BOOLEAN :
          qcalls' = [qcalls EXCEPT ![i] = IF ok THEN "done" ELSE "failed"]
    /\ UNCHANGED <<client_active, client, runnerVars, recVars, loadVars, typeVars>>

\* close()
ConnClose ==
    /\ ~client.ended
    /\ client_active' = FALSE
    /\ client' = [client EXCEPT !.ended = TRUE]
    /\ UNCHANGED <<qcalls, runnerVars, recVars, loadVars, typeVars>>

\* init() has run
InitConn ==
    /\ InitRunner
    /\ tableState = "absent"
    /\ RecInit
    /\ LoadInit
    /\ TypeInit
    /\ ConnInit

NextConn ==
    \/ \E i \in 1..MaxQueries : DbQuery(i) \/ ConnectDone(i) \/ QueryDone(i)
    \/ ConnClose

SpecConn == InitConn /\ [][NextConn]_vars

\* C39: between init and close, client.connect is invoked at most once, and
\* no query has reached the client unless a connect has succeeded.
C39_ConnectOnce ==
    ~client.ended =>
        /\ client.connects <= 1
        /\ (client.queries > 0 => client.connected)

\* ---- applyType ----

\* the length of `types` beyond which the loop is not followed
MaxTypes ==
    7

\* the types that are given to applyType and that shorthands stand for
GivenTypes == TypeNames \cup {"int"}

\* defaultTypeShorthands: id stands for serial (and primaryKey)
DefaultTypeShorthands == [NoShorthands EXCEPT !["id"] = "serial"]

\* { ...defaultTypeShorthands, ...extendingTypeShorthands }
MergeTypeShorthands(extending) ==
    [k \in TypeNames |->
        IF extending[k] # NoType THEN extending[k] ELSE DefaultTypeShorthands[k]]

\* typeShorthands[name], NoType when there is no such key
Lookup(name) == IF name \in DOMAIN typeShorthands THEN typeShorthands[name] ELSE NoType

\* variant of Includes: only the last element is compared
IncludesLast(ts, t) == ts[Len(ts)] = t

\* types.includes(t)
Includes(ts, t) == \E i \in 1..Len(ts) : ts[i] = t

\* one turn of the while loop: ext takes the type of the shorthand of the
\* last name, which is thrown at if it is in `types` and pushed if not
ApplyTypeLoop ==
    /\ outcome = "running"
    /\ Len(types) < MaxTypes
    /\ Lookup(types[Len(types)]) # NoType
    /\ ext' = Lookup(types[Len(types)])
    /\ IF Includes(types, ext')
       THEN outcome' = "thrown" /\ UNCHANGED types
       ELSE types' = Append(types, ext') /\ UNCHANGED outcome
    /\ UNCHANGED <<atype, typeShorthands, runnerVars, recVars, loadVars, connVars>>

\* the loop condition is false: the column definition is returned
ApplyTypeReturn ==
    /\ outcome = "running"
    /\ Lookup(types[Len(types)]) = NoType
    /\ outcome' = "returned"
    /\ UNCHANGED <<atype, typeShorthands, types, ext, runnerVars, recVars, loadVars, connVars>>

\* applyType(type, extendingTypeShorthands) is entered
InitType ==
    /\ InitRunner
    /\ tableState = "absent"
    /\ RecInit
    /\ LoadInit
    /\ ConnInit
    /\ atype \in GivenTypes
    /\ \E extending \in [TypeNames -> GivenTypes \cup {NoType}] :
          typeShorthands = MergeTypeShorthands(extending)
    /\ types = <<atype>>
    /\ ext = NoType
    /\ outcome = "running"

NextType == ApplyTypeLoop \/ ApplyTypeReturn

\* the call runs on until it returns or throws
SpecType == InitType /\ [][NextType]_vars /\ WF_vars(NextType)

RECURSIVE Follow(_)
\* the k-th name on the way from the given type through the shorthands
Follow(k) ==
    IF k = 0 THEN atype
    ELSE LET p == Follow(k - 1)
         IN  IF p = NoType \/ p \notin TypeNames THEN NoType ELSE typeShorthands[p]

\* following the shorthands from the given type comes to a name a second time
Revisits ==
    LET n == Cardinality(GivenTypes)
    IN  \E i \in 0..n : \E j \in 0..n : i < j /\ Follow(i) # NoType /\ Follow(i) = Follow(j)

\* C40: applyType comes to an end for every type and every shorthand mapping,
\* by returning or by throwing the cyclic-dependency error, and it throws
\* exactly when following the shorthands from the given type comes to a name
\* that was visited before.
C40_ApplyTypeTerminates ==
    /\ <>(outcome \in {"returned", "thrown"})
    /\ [](outcome = "thrown" => Revisits)
    /\ [](outcome = "returned" => ~Revisits)

\* the error was thrown for a cycle that does not go through the given type
C40_Witness ==
    /\ outcome = "thrown"
    /\ Len(types) >= 3
    /\ ext # atype

====
